---------------------------- MODULE Spec2Model ----------------------------
(***************************************************************************)
(* A model of the layout generator of src/lib/mapGenerator.ts.             *)
(*                                                                         *)
(* Numbers.  The generator computes with JavaScript doubles.  Every        *)
(* number of the model is a fixed-point number: an integer count of        *)
(* 1/Scale units.  Sums, differences, halves, thirds and the quarter-turn  *)
(* rotations of such numbers are exact on this lattice.  The one place     *)
(* where the code produces numbers off every lattice is the product        *)
(* proportions[i] * availableSize of pickCuts; it is computed exactly (as  *)
(* a ratio of the 31-bit generator states) and then rounded to the nearest *)
(* multiple of CutStep, as a double rounds to its nearest representable    *)
(* value.  The random generator itself is modelled bit for bit.            *)
(*                                                                         *)
(* Strings.  A node id "TEAM-ABBR-n" is the sequence of its fields split   *)
(* at '-'; substring tests are made on the spelling of the fields.         *)
(*                                                                         *)
(* Evaluation.  Then(v, F) is F(v) with v computed once: the JavaScript    *)
(* statement "const x = v; ... x ... x ...".                               *)
(***************************************************************************)
EXTENDS Integers, Sequences, FiniteSets, TLC

Then(v, F(_)) == CHOOSE r \in {F(x) : x \in {v}} : TRUE

\* ------------------------------------------------------------------------
\* Fixed-point numbers
\* ------------------------------------------------------------------------

\* one unit of the code is Scale lattice steps (halves, quarters, thirds exact)
Scale == 2 * 2 * 3
\* resolution of a rounded product: half a unit
CutStep == Scale \div 2

N(k) == k * Scale

Min2(a, b) == IF a < b THEN a ELSE b
Max2(a, b) == IF a > b THEN a ELSE b

\* floor of a lattice number to a whole number of units (Math.floor)
FloorU(v) == (v \div Scale) * Scale

\* ------------------------------------------------------------------------
\* class PRNG
\* ------------------------------------------------------------------------

Modulus == 2147483647
Multiplier == 16807
\* Modulus = Multiplier * SchrageQ + SchrageR: the product state * 16807 is
\* exact in a double (below 2^53); here it is reduced without leaving 32 bits
SchrageQ == Modulus \div Multiplier
SchrageR == Modulus % Multiplier

\* JavaScript's %: the sign of the dividend
JsRem(a, m) == IF a >= 0 THEN a % m ELSE -((-a) % m)

\* constructor(seed)
PRNGNew(seed) ==
    LET r == JsRem(seed, Modulus)
    IN  IF r <= 0 THEN r + (Modulus - 1) ELSE r

\* the state after one next(): (seed * 16807) % 2147483647
nextState(s) ==
    LET t == Multiplier * (s % SchrageQ) - SchrageR * (s \div SchrageQ)
    IN  IF t < 0 THEN t + Modulus ELSE IF t >= Modulus THEN t - Modulus ELSE t

\* next() returns (seed - 1) / 2147483646: the numerator of that fraction
nextValue(s) == s - 1

\* floor(a * n / d) for -1 <= a < d, 0 <= n < 46340 <= d \div n, without
\* leaving 32 bits (a = -1 is the next() of a generator whose state is 0)
MulDivFloor(a, n, d) ==
    IF n = 0 THEN 0
    ELSE LET q  == d \div n
             r  == d % n
             k0 == a \div q
             \* ceil(k0 * d / n)
             T  == k0 * q + ((k0 * r + n - 1) \div n)
         IN  IF T <= a THEN k0 ELSE k0 - 1

\* nextInt(min, max): Math.floor(next() * (max - min + 1)) + min, and min
\* with no draw when min > max.  Returns the value and the state.
nextInt(s, min, max) ==
    IF min > max THEN [s |-> s, v |-> min]
    ELSE Then(nextState(s), LAMBDA s1 :
            [s |-> s1,
             v |-> N(MulDivFloor(nextValue(s1), max - min + Scale, Modulus - 1) \div Scale)
                   + min])

\* undefined, where the code reads a property that was never set
Undefined == <<>>

\* The array of shuffle with its property "-1" in front: slot k + 2 holds
\* array[k].  randomIndex is -1 when next() is negative, and the swap then
\* goes through array[-1], which starts undefined; holes is the set of the
\* slots that hold undefined.
Slots(arr) == [v |-> <<Undefined>> \o arr, holes |-> {1}]

\* [array[i], array[j]] = [array[j], array[i]], for indices from -1 on
Swap(arr, i, j) ==
    [v |-> [k \in 1..Len(arr.v) |-> IF k = i + 2 THEN arr.v[j + 2]
                                   ELSE IF k = j + 2 THEN arr.v[i + 2] ELSE arr.v[k]],
     holes |-> {k \in 1..Len(arr.v) :
                   IF k = i + 2 THEN (j + 2) \in arr.holes
                   ELSE IF k = j + 2 THEN (i + 2) \in arr.holes ELSE k \in arr.holes}]

RECURSIVE shuffleFrom(_, _, _)
shuffleFrom(s, arr, currentIndex) ==
    IF currentIndex = 0
    THEN [s |-> s, v |-> Tail(arr.v), holes |-> {k - 1 : k \in arr.holes \ {1}}]
    ELSE Then(nextState(s), LAMBDA s1 :
         Then(MulDivFloor(nextValue(s1), currentIndex, Modulus - 1), LAMBDA randomIndex :
         Then(Swap(arr, currentIndex - 1, randomIndex), LAMBDA swapped :
            shuffleFrom(s1, swapped, currentIndex - 1))))

\* shuffle(array): the array after the swaps, and the positions (from 1) of
\* its elements that are undefined
shuffle(s, arr) == Then(Slots(arr), LAMBDA a : shuffleFrom(s, a, Len(arr)))

\* ------------------------------------------------------------------------
\* pickCuts
\* ------------------------------------------------------------------------

\* a number below 2^47 as <<high, low>> with low < 2^16
Limb == 256 * 256
Wide(a) == <<a \div Limb, a % Limb>>
WideAdd(p, q) == <<p[1] + q[1] + ((p[2] + q[2]) \div Limb), (p[2] + q[2]) % Limb>>
WideMul(k, p) == <<k * p[1] + ((k * p[2]) \div Limb), (k * p[2]) % Limb>>
WideLe(p, q) == p[1] < q[1] \/ (p[1] = q[1] /\ p[2] <= q[2])

\* randomValues.reduce((a, b) => a + b, 0)
RECURSIVE WideSum(_, _, _)
WideSum(vals, i, acc) ==
    IF i > Len(vals) THEN acc
    ELSE Then(WideAdd(acc, Wide(vals[i])), LAMBDA a : WideSum(vals, i + 1, a))

\* the largest k in lo..hi with k * sum <= m * v, i.e. floor(m * v / sum);
\* lo always satisfies the inequality
RECURSIVE FloorShare(_, _, _, _, _)
FloorShare(m, v, sum, lo, hi) ==
    IF lo >= hi THEN lo
    ELSE Then((lo + hi + 1) \div 2, LAMBDA mid :
            IF WideLe(WideMul(mid, sum), WideMul(m, Wide(v)))
            THEN FloorShare(m, v, sum, mid, hi)
            ELSE FloorShare(m, v, sum, lo, mid - 1))

\* proportions[i] * availableSize = (v / sum) * availableSize, rounded to the
\* nearest multiple of CutStep
Share(v, sum, availableSize) ==
    Then((2 * availableSize) \div CutStep, LAMBDA m :
        ((FloorShare(m, v, sum, 0, m) + 1) \div 2) * CutStep)

\* for (let i = 0; i < numCuts; i++) randomValues.push(prng.next())
RECURSIVE drawValues(_, _, _)
drawValues(s, n, vals) ==
    IF n = 0 THEN [s |-> s, v |-> vals]
    ELSE Then(nextState(s), LAMBDA s1 :
         Then(Append(vals, nextValue(s1)), LAMBDA vs : drawValues(s1, n - 1, vs)))

\* The values of one pickCuts call are all of one sign (all negative when the
\* generator's state is 0, which it then never leaves), and v / sum is the
\* quotient of their magnitudes.
Magnitudes(vals) == [i \in 1..Len(vals) |-> IF vals[i] < 0 THEN -vals[i] ELSE vals[i]]

\* for (let i = 0; i < numCuts; i++) { cut = lastCut + minCellSize + ...;
\* cuts.push(cut); lastCut = cut }
RECURSIVE cutsFrom(_, _, _, _, _, _)
cutsFrom(vals, sum, availableSize, minCellSize, cuts, i) ==
    IF i > Len(vals) THEN cuts
    ELSE Then((IF cuts = <<>> THEN 0 ELSE cuts[Len(cuts)]) + minCellSize
              + Share(vals[i], sum, availableSize), LAMBDA cut :
         Then(Append(cuts, cut), LAMBDA cs :
            cutsFrom(vals, sum, availableSize, minCellSize, cs, i + 1)))

\* pickCuts(prng, totalSize, numCuts, minCellSize); ok = FALSE is the throw
pickCuts(s, totalSize, numCuts, minCellSize) ==
    Then(totalSize - minCellSize * (numCuts + 1), LAMBDA availableSize :
        IF availableSize < 0
        THEN [ok |-> FALSE, s |-> s, v |-> <<>>]
        ELSE Then(drawValues(s, numCuts, <<>>), LAMBDA d :
             Then(Magnitudes(d.v), LAMBDA vals :
             Then(WideSum(vals, 1, <<0, 0>>), LAMBDA sum :
                [ok |-> TRUE, s |-> d.s,
                 v |-> cutsFrom(vals, sum, availableSize, minCellSize, <<>>, 1)]))))

\* ------------------------------------------------------------------------
\* types.ts
\* ------------------------------------------------------------------------

WOOL == "W"
WOOL_ENTRY == "WE"
SPAWN == "S"
SPAWN_ENTRY == "SE"
FRONT_LINE == "FL"
FRONT_LINE_ENTRY == "FE"
HUB == "HUB"
ISLAND == "I"
HELPER == "HELPER"
CENTER_HUB == "CH"

StrategicPointType ==
    {WOOL, WOOL_ENTRY, SPAWN, SPAWN_ENTRY, FRONT_LINE, FRONT_LINE_ENTRY, HUB,
     ISLAND, HELPER, CENTER_HUB}

NODE_TYPE_ABBREVIATIONS ==
    [t \in StrategicPointType |->
        CASE t = SPAWN -> "SPAWN"
          [] t = SPAWN_ENTRY -> "S_EXIT"
          [] t = WOOL -> "WOOL"
          [] t = WOOL_ENTRY -> "W_ENTRY"
          [] t = FRONT_LINE -> "FRNT"
          [] t = FRONT_LINE_ENTRY -> "F_ENTRY"
          [] t = HUB -> "HUB"
          [] t = HELPER -> "HLPR"
          [] t = ISLAND -> "ISLE"
          [] t = CENTER_HUB -> "C_HUB"]

BLUE == "BLUE"
ORANGE == "ORANGE"
GREEN == "GREEN"
YELLOW == "YELLOW"
Team == {BLUE, ORANGE, GREEN, YELLOW}

MIRROR == "Mirror"
ROTATION == "Rotation"
STANDARD == "Standard"
ROW_INDEPENDENT == "Row-Independent"

\* the characters of the id fields that are words (a number field has digits
\* only), for String.prototype.includes
Spelling(field) ==
    CASE field = "SPAWN" -> <<"S", "P", "A", "W", "N">>
      [] field = "S_EXIT" -> <<"S", "_", "E", "X", "I", "T">>
      [] field = "WOOL" -> <<"W", "O", "O", "L">>
      [] field = "W_ENTRY" -> <<"W", "_", "E", "N", "T", "R", "Y">>
      [] field = "FRNT" -> <<"F", "R", "N", "T">>
      [] field = "F_ENTRY" -> <<"F", "_", "E", "N", "T", "R", "Y">>
      [] field = "HUB" -> <<"H", "U", "B">>
      [] field = "HLPR" -> <<"H", "L", "P", "R">>
      [] field = "ISLE" -> <<"I", "S", "L", "E">>
      [] field = "C_HUB" -> <<"C", "_", "H", "U", "B">>
      [] field = "BLUE" -> <<"B", "L", "U", "E">>
      [] field = "ORANGE" -> <<"O", "R", "A", "N", "G", "E">>
      [] field = "GREEN" -> <<"G", "R", "E", "E", "N">>
      [] field = "YELLOW" -> <<"Y", "E", "L", "L", "O", "W">>
      [] OTHER -> <<>>

\* id.includes(word), for a word of letters and '_': it lies within the team
\* field or the abbreviation field (the third field has digits only)
includes(id, word) ==
    \E f \in 1..Min2(2, Len(id)) :
        LET sp == Spelling(id[f])
        IN  \E k \in 0..(Len(sp) - Len(word)) : SubSeq(sp, k + 1, k + Len(word)) = word

\* ------------------------------------------------------------------------
\* generateNodeId
\* ------------------------------------------------------------------------

\* a counter table: Map<string, number>, keyed `${team}-${type}`
NoCounters == [k \in Team \X StrategicPointType |-> 0]

\* a faulty generateNodeId, which forgets counters.set(key, index)
generateNodeIdStuck(counters, team, type) ==
    [counters |-> counters,
     id |-> <<team, NODE_TYPE_ABBREVIATIONS[type], counters[<<team, type>>] + 1>>]

\* generateNodeId(counters, team, type): the table after, and the id
\* `${team}-${abbr}-${index}` as its fields
generateNodeId(counters, team, type) ==
    LET key == <<team, type>>
        index == counters[key] + 1
    IN  [counters |-> [counters EXCEPT ![key] = index],
         id |-> <<team, NODE_TYPE_ABBREVIATIONS[type], index>>]

\* ------------------------------------------------------------------------
\* placePairedPoints, placePointsInZone
\* ------------------------------------------------------------------------

Pt(x, y) == [x |-> x, y |-> y]

\* placePairedPoints(prng, zone, distance, padding); branch names the return
\* taken
placePairedPoints(s, zone, distance, padding) ==
    Then([maxX |-> zone.x + zone.width - padding - distance.min,
          yLo |-> zone.y + padding,
          yHi |-> zone.y + zone.height - padding], LAMBDA c :
      IF c.maxX <= zone.x + padding
      THEN Then(nextInt(s, c.yLo, c.yHi), LAMBDA oy :
           Then(nextInt(oy.s, c.yLo, c.yHi), LAMBDA ey :
              [s |-> ey.s, branch |-> "narrow",
               objective |-> Pt(zone.x + padding, oy.v),
               entry |-> Pt(zone.x + zone.width - padding, ey.v)]))
      ELSE Then(nextInt(s, zone.x + padding, c.maxX), LAMBDA ox :
           Then(nextInt(ox.s, c.yLo, c.yHi), LAMBDA oy :
           Then([objective |-> Pt(ox.v, oy.v),
                 clampedMinX |-> Max2(ox.v + distance.min, zone.x + padding),
                 clampedMaxX |-> Min2(ox.v + distance.max, zone.x + zone.width - padding)],
                LAMBDA o :
              IF o.clampedMinX >= o.clampedMaxX
              THEN Then(nextInt(oy.s, c.yLo, c.yHi), LAMBDA ey :
                      [s |-> ey.s, branch |-> "collapsed",
                       objective |-> o.objective,
                       entry |-> Pt(zone.x + zone.width - padding, ey.v)])
              ELSE Then(nextInt(oy.s, o.clampedMinX, o.clampedMaxX), LAMBDA ex :
                   Then(nextInt(ex.s, c.yLo, c.yHi), LAMBDA ey :
                      [s |-> ey.s, branch |-> "ranged",
                       objective |-> o.objective,
                       entry |-> Pt(ex.v, ey.v)]))))))

RECURSIVE placePointsInZone(_, _, _, _)
placePointsInZone(s, zone, count, padding) ==
    IF count = 0 THEN [s |-> s, v |-> <<>>]
    ELSE Then(nextInt(s, padding, zone.width - padding), LAMBDA px :
         Then(nextInt(px.s, padding, zone.height - padding), LAMBDA py :
         Then(placePointsInZone(py.s, zone, count - 1, padding), LAMBDA rest :
            [s |-> rest.s, v |-> <<Pt(zone.x + px.v, zone.y + py.v)>> \o rest.v])))

\* ------------------------------------------------------------------------
\* createGrid
\* ------------------------------------------------------------------------

minCellWidth == 20
minCellHeight == 20

Zone(x, y, width, height, row, col) ==
    [x |-> x, y |-> y, width |-> width, height |-> height, row |-> row, col |-> col]

\* a faulty gridRow, which advances x by the cut (finalVCuts[j]) and not by
\* the column width
gridRowByCuts(i, y, rowHeight, finalVCuts, width) ==
    Then(<<finalVCuts[1], finalVCuts[2] - finalVCuts[1], width - finalVCuts[2]>>,
         LAMBDA finalColWidths :
            <<Zone(0, y, finalColWidths[1], rowHeight, i, 0),
              Zone(0 + finalVCuts[1], y, finalColWidths[2], rowHeight, i, 1),
              Zone(0 + finalVCuts[1] + finalVCuts[2], y, finalColWidths[3],
                   rowHeight, i, 2)>>)

\* one row of the grid: for (let j = 0; j < 3; j++) { ...; x += finalColWidths[j] }
gridRow(i, y, rowHeight, finalVCuts, width) ==
    Then(<<finalVCuts[1], finalVCuts[2] - finalVCuts[1], width - finalVCuts[2]>>,
         LAMBDA finalColWidths :
            <<Zone(0, y, finalColWidths[1], rowHeight, i, 0),
              Zone(0 + finalColWidths[1], y, finalColWidths[2], rowHeight, i, 1),
              Zone(0 + finalColWidths[1] + finalColWidths[2], y, finalColWidths[3],
                   rowHeight, i, 2)>>)

\* the rows from row i on: for (let i = 0; i < 3; i++) { ...; y += rowHeights[i] }
RECURSIVE gridRows(_, _, _, _, _, _, _)
gridRows(s, i, y, rowHeights, vCuts, width, useRowIndependentCuts) ==
    IF i = 3 THEN [ok |-> TRUE, s |-> s, v |-> <<>>]
    ELSE Then(IF useRowIndependentCuts
              THEN pickCuts(s, width, 2, N(minCellWidth))
              ELSE [ok |-> TRUE, s |-> s, v |-> vCuts], LAMBDA own :
           IF ~own.ok THEN [ok |-> FALSE, s |-> own.s, v |-> <<>>]
           ELSE Then(gridRows(own.s, i + 1, y + rowHeights[i + 1], rowHeights,
                              vCuts, width, useRowIndependentCuts), LAMBDA rest :
                   [ok |-> rest.ok, s |-> rest.s,
                    v |-> IF rest.ok
                          THEN <<gridRow(i, y, rowHeights[i + 1], own.v, width)>> \o rest.v
                          ELSE <<>>]))

\* the horizontal cuts: [topRowHeight, height - topRowHeight] of the
\* symmetrical layout (which throws when no top row fits), else pickCuts
horizontalCuts(s, height, symmetricalTeamLayout) ==
    IF symmetricalTeamLayout
    THEN Then(FloorU((height - N(minCellHeight)) \div 2), LAMBDA maxTopRowHeight :
            IF N(minCellHeight) > maxTopRowHeight
            THEN [ok |-> FALSE, s |-> s, v |-> <<>>]
            ELSE Then(nextInt(s, N(minCellHeight), maxTopRowHeight), LAMBDA top :
                    [ok |-> TRUE, s |-> top.s, v |-> <<top.v, height - top.v>>]))
    ELSE pickCuts(s, height, 2, N(minCellHeight))

\* createGrid(prng, width, height, gridMode, symmetricalTeamLayout);
\* ok = FALSE is a throw
createGrid(s, width, height, gridMode, symmetricalTeamLayout) ==
    Then(horizontalCuts(s, height, symmetricalTeamLayout), LAMBDA h :
      IF ~h.ok THEN [ok |-> FALSE, s |-> h.s, v |-> <<>>]
      ELSE Then(pickCuts(h.s, width, 2, N(minCellWidth)), LAMBDA v :
             IF ~v.ok THEN [ok |-> FALSE, s |-> v.s, v |-> <<>>]
             ELSE gridRows(v.s, 0, 0,
                           <<h.v[1], h.v[2] - h.v[1], height - h.v[2]>>, v.v, width,
                           gridMode = ROW_INDEPENDENT /\ ~symmetricalTeamLayout)))

\* grid[i][j], 0-based
Cell(grid, i, j) == grid[i + 1][j + 1]

\* ------------------------------------------------------------------------
\* placeNodes
\* ------------------------------------------------------------------------

\* a DistanceConstraint of the configuration, as lattice numbers
Dist(d) == [min |-> N(d.min), max |-> N(d.max)]

Node(id, type, pos, team) == [id |-> id, type |-> type, pos |-> pos, team |-> team]

\* The working state of one placement: the generator state, the counter
\* table, the nodes pushed so far, and the record of every placePairedPoints
\* call (its arguments and what it returned); ok = FALSE once the placement
\* has thrown a TypeError.
Work(s, counters) ==
    [s |-> s, counters |-> counters, nodes |-> <<>>, pairs |-> <<>>, ok |-> TRUE]

\* nodes.push({ id: generateNodeId(counters, team, type), type, pos, team })
pushNode(b, team, type, pos) ==
    Then(generateNodeId(b.counters, team, type), LAMBDA g :
        [b EXCEPT !.counters = g.counters,
                  !.nodes = Append(@, Node(g.id, type, pos, team))])

\* the pushes of several nodes in order, each <<type, pos>>
RECURSIVE pushNodes(_, _, _)
pushNodes(b, team, items) ==
    IF items = <<>> THEN b
    ELSE Then(pushNode(b, team, Head(items)[1], Head(items)[2]), LAMBDA b1 :
            pushNodes(b1, team, Tail(items)))

PairRecord(zone, distance, padding, p) ==
    [zone |-> zone, distance |-> distance, padding |-> padding,
     objective |-> p.objective, entry |-> p.entry, branch |-> p.branch]

\* const { objective, entry } = placePairedPoints(prng, zone, distance, 10)
drawPair(b, zone, distance) ==
    Then(placePairedPoints(b.s, zone, distance, N(10)), LAMBDA p :
        [b EXCEPT !.s = p.s,
                  !.pairs = Append(@, PairRecord(zone, distance, N(10), p))])

\* the pair drawn last
lastPair(b) == b.pairs[Len(b.pairs)]

\* the draw of a pair, then the push of the objective's node and of the
\* entry's node
pushPair(b, zone, distance, team, objectiveType, entryType) ==
    Then(drawPair(b, zone, distance), LAMBDA b1 :
        pushNodes(b1, team, <<<<objectiveType, lastPair(b1).objective>>,
                              <<entryType, lastPair(b1).entry>>>>))

\* the hubs of rows i..2 of the middle column
RECURSIVE pushHubs(_, _, _, _)
pushHubs(b, grid, team, i) ==
    IF i = 3 THEN b
    ELSE Then(placePointsInZone(b.s, Cell(grid, i, 1), 1, N(10)), LAMBDA h :
         Then(pushNode([b EXCEPT !.s = h.s], team, HUB, h.v[1]), LAMBDA b1 :
            pushHubs(b1, grid, team, i + 1)))

\* for (const i of frontlineZoneIndices): the helper's objective is the
\* FrontLineEntry and its entry the FrontLine
RECURSIVE pushFrontlines(_, _, _, _, _)
pushFrontlines(b, grid, team, distance, indices) ==
    IF indices = <<>> THEN b
    ELSE Then(pushPair(b, Cell(grid, Head(indices), 2), distance, team,
                       FRONT_LINE_ENTRY, FRONT_LINE), LAMBDA b1 :
            pushFrontlines(b1, grid, team, distance, Tail(indices)))

\* the two wools, each with its entry, in the order of woolZones, from
\* woolZones[i - 1] on; placePairedPoints reads zone.x, a TypeError when
\* the zone is undefined
RECURSIVE pushWools(_, _, _, _, _)
pushWools(b, woolZones, i, team, distance) ==
    IF i > Len(woolZones.v) THEN b
    ELSE IF i \in woolZones.holes THEN [b EXCEPT !.ok = FALSE]
    ELSE Then(pushPair(b, woolZones.v[i], distance, team, WOOL, WOOL_ENTRY), LAMBDA b1 :
            pushWools(b1, woolZones, i + 1, team, distance))

\* a faulty choice of the frontline zones, slicing by prng.nextInt(1, 3)
frontlineZoneIndicesFrom1(s) ==
    Then(shuffle(s, <<0, 1, 2>>), LAMBDA order :
    Then(nextInt(order.s, N(1), N(3)), LAMBDA count :
        [s |-> count.s, v |-> SubSeq(order.v, 1, count.v \div Scale),
         holes |-> order.holes \cap 1..(count.v \div Scale)]))

\* prng.shuffle([0, 1, 2]).slice(0, prng.nextInt(2, 3))
frontlineZoneIndices(s) ==
    Then(shuffle(s, <<0, 1, 2>>), LAMBDA order :
    Then(nextInt(order.s, N(2), N(3)), LAMBDA count :
        [s |-> count.s, v |-> SubSeq(order.v, 1, count.v \div Scale),
         holes |-> order.holes \cap 1..(count.v \div Scale)]))

\* the placement of the layout that is not symmetrical; grid[undefined][2]
\* is a TypeError too
placeNodesAsymmetric(b, grid, team, config) ==
    Then(shuffle(b.s, <<Cell(grid, 0, 0), Cell(grid, 2, 0)>>), LAMBDA woolZones :
    Then(pushWools([b EXCEPT !.s = woolZones.s], woolZones, 1, team,
                   Dist(config.woolEntryDistance)), LAMBDA b2 :
      IF ~b2.ok THEN b2
      ELSE
    Then(pushPair(b2, Cell(grid, 1, 0), Dist(config.spawnEntryDistance), team,
                  SPAWN, SPAWN_ENTRY), LAMBDA b3 :
    Then(pushHubs(b3, grid, team, 0), LAMBDA b4 :
    Then(frontlineZoneIndices(b4.s), LAMBDA indices :
      IF indices.holes # {} THEN [b4 EXCEPT !.s = indices.s, !.ok = FALSE]
      ELSE
        pushFrontlines([b4 EXCEPT !.s = indices.s], grid, team,
                       Dist(config.frontlineEntryDistance), indices.v))))))

\* mirrorPoint of the symmetrical layout
mirrorPoint(p, mirrorY) == Pt(p.x, 2 * mirrorY - p.y)

\* steps 1 and 2 of the symmetrical layout: spawn and wools
placeSymmetricalBase(b, grid, team, config) ==
    Then(nextInt(b.s, N(10), Cell(grid, 1, 0).height - N(10)), LAMBDA my :
    Then(Cell(grid, 1, 0).y + my.v, LAMBDA mirrorY :
    Then(drawPair([b EXCEPT !.s = my.s], Cell(grid, 1, 0),
                  Dist(config.spawnEntryDistance)), LAMBDA b1 :
    Then(pushNodes(b1, team, <<<<SPAWN, Pt(lastPair(b1).objective.x, mirrorY)>>,
                               <<SPAWN_ENTRY, Pt(lastPair(b1).entry.x, mirrorY)>>>>),
         LAMBDA b2 :
    Then(pushPair(b2, Cell(grid, 0, 0), Dist(config.woolEntryDistance), team,
                  WOOL, WOOL_ENTRY), LAMBDA b3 :
        [mirrorY |-> mirrorY,
         b |-> pushNodes(b3, team,
                   <<<<WOOL, mirrorPoint(lastPair(b3).objective, mirrorY)>>,
                     <<WOOL_ENTRY, mirrorPoint(lastPair(b3).entry, mirrorY)>>>>)])))))

\* steps 3 and 4 of the symmetrical layout: hubs and frontlines
placeNodesSymmetrical(b, grid, team, config) ==
    Then(placeSymmetricalBase(b, grid, team, config), LAMBDA base :
    Then(placePointsInZone(base.b.s, Cell(grid, 0, 1), 1, N(10)), LAMBDA top :
    Then(nextInt(top.s, N(10), Cell(grid, 1, 1).width - N(10)), LAMBDA mx :
    Then(pushNodes([base.b EXCEPT !.s = mx.s], team,
                   <<<<HUB, top.v[1]>>,
                     <<HUB, Pt(Cell(grid, 1, 1).x + mx.v, base.mirrorY)>>,
                     <<HUB, mirrorPoint(top.v[1], base.mirrorY)>>>>), LAMBDA b7 :
    Then(pushPair(b7, Cell(grid, 0, 2), Dist(config.frontlineEntryDistance), team,
                  FRONT_LINE_ENTRY, FRONT_LINE), LAMBDA b8 :
        pushNodes(b8, team,
            <<<<FRONT_LINE_ENTRY, mirrorPoint(lastPair(b8).objective, base.mirrorY)>>,
              <<FRONT_LINE, mirrorPoint(lastPair(b8).entry, base.mirrorY)>>>>))))))

\* placeNodes(prng, grid, team, config, counters)
placeNodes(b, grid, team, config) ==
    IF ~config.symmetricalTeamLayout
    THEN placeNodesAsymmetric(b, grid, team, config)
    ELSE placeNodesSymmetrical(b, grid, team, config)

\* ------------------------------------------------------------------------
\* createEdges
\* ------------------------------------------------------------------------

\* findNodes(nodes, type): nodes.filter(p => p.type === type)
findNodes(nodes, type) == LET Is(p) == p.type = type IN SelectSeq(nodes, Is)

\* findNode(nodes, type): the first such node; <<>> stands for undefined
findNode(nodes, type) ==
    Then(findNodes(nodes, type), LAMBDA found :
        IF found = <<>> THEN <<>> ELSE <<found[1]>>)

\* Math.hypot(a.x - b.x, a.y - b.y) is compared only with another hypot:
\* the comparison of the squares
Hypot2(a, b) == (a.x - b.x) * (a.x - b.x) + (a.y - b.y) * (a.y - b.y)

\* candidates.reduce((prev, curr) => hypot(curr, target) < hypot(prev, target)
\*                                   ? curr : prev), from position i on
RECURSIVE reduceNearest(_, _, _, _)
reduceNearest(targetPos, candidates, prev, i) ==
    IF i > Len(candidates) THEN prev
    ELSE Then(IF Hypot2(candidates[i].pos, targetPos) < Hypot2(prev.pos, targetPos)
              THEN candidates[i] ELSE prev, LAMBDA next :
            reduceNearest(targetPos, candidates, next, i + 1))

\* the reduce without an initial value, on a non-empty array
nearestOf(targetPos, candidates) == reduceNearest(targetPos, candidates, candidates[1], 2)

Edge(from, to, type, isRushRoute) ==
    [from |-> from.id, to |-> to.id, nodes |-> <<from.pos, to.pos>>,
     type |-> type, isRushRoute |-> isRushRoute]

\* Array.prototype.sort((a, b) => a.pos.y - b.pos.y): stable, ascending y
RECURSIVE insertByY(_, _)
insertByY(sorted, p) ==
    IF sorted = <<>> THEN <<p>>
    ELSE IF sorted[Len(sorted)].pos.y <= p.pos.y THEN Append(sorted, p)
    ELSE Append(insertByY(SubSeq(sorted, 1, Len(sorted) - 1), p), sorted[Len(sorted)])

RECURSIVE sortByY(_)
sortByY(arr) ==
    IF arr = <<>> THEN <<>>
    ELSE Then(sortByY(SubSeq(arr, 1, Len(arr) - 1)), LAMBDA sorted :
            insertByY(sorted, arr[Len(arr)]))

\* wools.forEach(wool => ...), from wool i on
RECURSIVE woolEdges(_, _, _, _)
woolEdges(wools, woolEntries, hubs, i) ==
    IF i > Len(wools) THEN <<>>
    ELSE IF woolEntries = <<>> \/ hubs = <<>> THEN woolEdges(wools, woolEntries, hubs, i + 1)
    ELSE Then(nearestOf(wools[i].pos, woolEntries), LAMBDA entry :
         Then(nearestOf(entry.pos, hubs), LAMBDA hub :
            <<Edge(hub, entry, "walkable", FALSE), Edge(entry, wools[i], "walkable", FALSE)>>
            \o woolEdges(wools, woolEntries, hubs, i + 1)))

\* frontEntries.forEach(fe => edges.push(closestHub -> fe)), from entry i on
RECURSIVE hubToFrontEntryEdges(_, _, _)
hubToFrontEntryEdges(frontEntries, hubs, i) ==
    IF hubs = <<>> \/ i > Len(frontEntries) THEN <<>>
    ELSE Then(nearestOf(frontEntries[i].pos, hubs), LAMBDA closestHub :
            <<Edge(closestHub, frontEntries[i], "walkable", FALSE)>>
            \o hubToFrontEntryEdges(frontEntries, hubs, i + 1))

\* for (let i = 0; i < sortedHubs.length - 1; i++), from hub i on
RECURSIVE interHubEdges(_, _)
interHubEdges(sortedHubs, i) ==
    IF i + 1 > Len(sortedHubs) THEN <<>>
    ELSE <<Edge(sortedHubs[i], sortedHubs[i + 1], "walkable", FALSE)>>
         \o interHubEdges(sortedHubs, i + 1)

\* frontEntries.forEach(fe => edges.push(fe -> closest frontline))
RECURSIVE frontEntryToFrontlineEdges(_, _, _)
frontEntryToFrontlineEdges(frontEntries, frontlines, i) ==
    IF frontlines = <<>> \/ i > Len(frontEntries) THEN <<>>
    ELSE Then(nearestOf(frontEntries[i].pos, frontlines), LAMBDA fl :
            <<Edge(frontEntries[i], fl, "walkable", FALSE)>>
            \o frontEntryToFrontlineEdges(frontEntries, frontlines, i + 1))

\* the positions in edges of edges.filter(p => p.from.includes('HUB')
\*                                          && p.to.includes('F_ENTRY'))
potentialGapEdges(edges) ==
    LET IsGap(i) == /\ includes(edges[i].from, <<"H", "U", "B">>)
                    /\ includes(edges[i].to, <<"F", "_", "E", "N", "T", "R", "Y">>)
    IN  SelectSeq([i \in 1..Len(edges) |-> i], IsGap)

\* edgesToGap.forEach(p => { p.type = 'bridgeable' }): the edge objects are
\* those of edges
tagBridgeable(edges, edgesToGap) ==
    [i \in 1..Len(edges) |->
        IF \E k \in 1..Len(edgesToGap) : edgesToGap[k] = i
        THEN [edges[i] EXCEPT !.type = "bridgeable"] ELSE edges[i]]

\* the nodes of createEdges by type; hubs.sort(...) sorts hubs itself, so
\* hubs and sortedHubs are one array
nodesByType(nodes) ==
    [spawn |-> findNode(nodes, SPAWN),
     spawnEntry |-> findNode(nodes, SPAWN_ENTRY),
     wools |-> findNodes(nodes, WOOL),
     woolEntries |-> findNodes(nodes, WOOL_ENTRY),
     hubs |-> sortByY(findNodes(nodes, HUB)),
     frontEntries |-> findNodes(nodes, FRONT_LINE_ENTRY),
     frontlines |-> findNodes(nodes, FRONT_LINE)]

\* a faulty choice of the middle hub: the first of the sorted hubs
midHubFirst(sortedHubs) ==
    IF Len(sortedHubs) > 1 THEN <<sortedHubs[1]>> ELSE sortedHubs

\* sortedHubs.length > 1 ? sortedHubs[Math.floor(sortedHubs.length / 2)]
\*                       : sortedHubs[0]; <<>> stands for undefined
midHubOf(sortedHubs) ==
    IF Len(sortedHubs) > 1 THEN <<sortedHubs[(Len(sortedHubs) \div 2) + 1]>>
    ELSE sortedHubs

\* the edges pushed before the tactical gaps
walkableEdges(n) ==
    <<Edge(n.spawn[1], n.spawnEntry[1], "walkable", FALSE)>>
    \o (IF midHubOf(n.hubs) # <<>>
        THEN <<Edge(n.spawnEntry[1], midHubOf(n.hubs)[1], "walkable", FALSE)>>
        ELSE <<>>)
    \o woolEdges(n.wools, n.woolEntries, n.hubs, 1)
    \o hubToFrontEntryEdges(n.frontEntries, n.hubs, 1)
    \o interHubEdges(n.hubs, 1)
    \o frontEntryToFrontlineEdges(n.frontEntries, n.frontlines, 1)

\* prng.shuffle(potentialGapEdges).slice(0, prng.nextInt(1, 2)), then the tags
tacticalGaps(s, edges, potential) ==
    IF potential = <<>> THEN [ok |-> TRUE, s |-> s, v |-> edges]
    ELSE Then(shuffle(s, potential), LAMBDA sh :
         Then(nextInt(sh.s, N(1), N(2)), LAMBDA k :
            IF sh.holes \cap 1..(k.v \div Scale) # {}
            THEN [ok |-> FALSE, s |-> k.s, v |-> <<>>]
            ELSE [ok |-> TRUE, s |-> k.s,
                  v |-> tagBridgeable(edges,
                            SubSeq(sh.v, 1, Min2(k.v \div Scale, Len(sh.v))))]))

\* createEdges(nodes, prng); ok = FALSE is the TypeError of spawn.id or
\* spawnEntry.id on undefined, or of p.type on an undefined edge to gap
createEdges(nodes, s) ==
    Then(nodesByType(nodes), LAMBDA n :
        IF n.spawn = <<>> \/ n.spawnEntry = <<>> THEN [ok |-> FALSE, s |-> s, v |-> <<>>]
        ELSE Then(walkableEdges(n), LAMBDA edges :
                tacticalGaps(s, edges, potentialGapEdges(edges))))

\* ------------------------------------------------------------------------
\* addPathingEnhancements
\* ------------------------------------------------------------------------

\* the position of the first edge satisfying Test, 0 for undefined
\* (Array.prototype.find)
FirstIndex(edges, Test(_)) ==
    IF \E i \in 1..Len(edges) : Test(edges[i])
    THEN CHOOSE i \in 1..Len(edges) :
            Test(edges[i]) /\ \A j \in 1..(i - 1) : ~Test(edges[j])
    ELSE 0

\* newEdges.filter(p => p !== a && p !== b): the edge objects at i and j go
RemoveAt(edges, i, j) ==
    LET Keep(k) == k # i /\ k # j
    IN  Then(SelectSeq([k \in 1..Len(edges) |-> k], Keep), LAMBDA kept :
            [k \in 1..Len(kept) |-> edges[kept[k]]])

\* newNodes.find(p => p.id === id)!
nodeById(nodes, id) ==
    LET Is(p) == p.id = id IN SelectSeq(nodes, Is)[1]

\* x + (y - x) * 0.5
Mid(x, y) == x + ((y - x) \div 2)

\* the three helper nodes p1, p2, p3 of a flank route and the counters after
flankHelpers(counters, team, p1Pos, p2Pos, p3Pos) ==
    Then(generateNodeId(counters, team, HELPER), LAMBDA g1 :
    Then(generateNodeId(g1.counters, team, HELPER), LAMBDA g2 :
    Then(generateNodeId(g2.counters, team, HELPER), LAMBDA g3 :
        [counters |-> g3.counters,
         p1 |-> Node(g1.id, HELPER, p1Pos, team),
         p2 |-> Node(g2.id, HELPER, p2Pos, team),
         p3 |-> Node(g3.id, HELPER, p3Pos, team)])))

\* the six edges of a flank route
flankEdges(hub, we, wool, h) ==
    <<Edge(hub, h.p1, "walkable", FALSE),
      Edge(h.p1, we, "walkable", FALSE),
      Edge(we, h.p2, "walkable", FALSE),
      Edge(h.p2, wool, "walkable", FALSE),
      Edge(h.p1, h.p3, "walkable", FALSE),
      Edge(h.p3, h.p2, "walkable", FALSE)>>

\* the body of if (hubToWEEdge && weToWoolEdge), on the working state
\* e = [s, counters, nodes, edges, flank]; flank is flankDiversionPoints
flankDivert(e, we, hubToWEEdge, weToWoolEdge, teamHeight, team) ==
    Then(nodeById(e.nodes, e.edges[hubToWEEdge].from), LAMBDA hub :
    Then(nodeById(e.nodes, e.edges[weToWoolEdge].to), LAMBDA wool :
    Then(nextInt(e.s, N(0), N(1)), LAMBDA coin :
    Then(Max2(N(10), Min2(we.pos.y + (IF coin.v = N(0) THEN N(25) ELSE -N(25)),
                          teamHeight - N(10))), LAMBDA flankY :
    Then(flankHelpers(e.counters, team,
                      Pt(Mid(hub.pos.x, we.pos.x), Mid(hub.pos.y, we.pos.y)),
                      Pt(Mid(we.pos.x, wool.pos.x), Mid(we.pos.y, wool.pos.y)),
                      Pt(we.pos.x, flankY)), LAMBDA h :
        [s |-> coin.s, counters |-> h.counters,
         nodes |-> e.nodes \o <<h.p1, h.p2, h.p3>>,
         flank |-> Append(e.flank, [key |-> we.id, node |-> h.p3]),
         edges |-> RemoveAt(e.edges, hubToWEEdge, weToWoolEdge)
                   \o flankEdges(hub, we, wool, h)])))))

\* the body of for (const we of woolEntries)
flankRoute(e, we, hubIds, woolIds, teamHeight, team) ==
    LET IsHubToWE(p) == p.to = we.id /\ p.from \in hubIds
        IsWEToWool(p) == p.from = we.id /\ p.to \in woolIds
    IN  Then(FirstIndex(e.edges, IsHubToWE), LAMBDA hubToWEEdge :
        Then(FirstIndex(e.edges, IsWEToWool), LAMBDA weToWoolEdge :
            IF hubToWEEdge = 0 \/ weToWoolEdge = 0 THEN e
            ELSE flankDivert(e, we, hubToWEEdge, weToWoolEdge, teamHeight, team)))

RECURSIVE flankRoutes(_, _, _, _, _, _, _)
flankRoutes(e, woolEntries, hubIds, woolIds, teamHeight, team, i) ==
    IF i > Len(woolEntries) THEN e
    ELSE Then(flankRoute(e, woolEntries[i], hubIds, woolIds, teamHeight, team), LAMBDA e1 :
            flankRoutes(e1, woolEntries, hubIds, woolIds, teamHeight, team, i + 1))

IdsOf(nodes) == {nodes[i].id : i \in 1..Len(nodes)}

\* flankDiversionPoints.get(id): <<>> stands for undefined
flankGet(flank, id) ==
    LET Is(f) == f.key = id
    IN  Then(SelectSeq(flank, Is), LAMBDA hits :
            IF hits = <<>> THEN <<>> ELSE <<hits[Len(hits)].node>>)

\* (seY < flankY && flankY < weY) || (weY < flankY && flankY < seY)
isBetween(seY, flankY, weY) ==
    (seY < flankY /\ flankY < weY) \/ (weY < flankY /\ flankY < seY)

\* the target of the rush route from spawnEntry
targetForRushRoute(e, spawnEntry, closestWE) ==
    Then(flankGet(e.flank, closestWE.id), LAMBDA flankDiversionPoint :
        IF /\ flankDiversionPoint # <<>>
           /\ isBetween(spawnEntry.pos.y, flankDiversionPoint[1].pos.y, closestWE.pos.y)
        THEN flankDiversionPoint[1]
        ELSE closestWE)

\* a faulty rush route, which never diverts to the flank helper
rushRouteDirect(e) ==
    Then(findNode(e.nodes, SPAWN_ENTRY), LAMBDA spawnEntry :
    Then(findNodes(e.nodes, WOOL_ENTRY), LAMBDA woolEntries :
        IF spawnEntry = <<>> \/ woolEntries = <<>> THEN e
        ELSE Then(nearestOf(spawnEntry[1].pos, woolEntries), LAMBDA closestWE :
                [e EXCEPT !.edges =
                    Append(@, Edge(spawnEntry[1], closestWE, "walkable", TRUE))])))

\* if (pathingEnhancements.enableSpawnWoolRushRoute) { ... }
rushRoute(e) ==
    Then(findNode(e.nodes, SPAWN_ENTRY), LAMBDA spawnEntry :
    Then(findNodes(e.nodes, WOOL_ENTRY), LAMBDA woolEntries :
        IF spawnEntry = <<>> \/ woolEntries = <<>> THEN e
        ELSE Then(nearestOf(spawnEntry[1].pos, woolEntries), LAMBDA closestWE :
                [e EXCEPT !.edges =
                    Append(@, Edge(spawnEntry[1],
                                   targetForRushRoute(e, spawnEntry[1], closestWE),
                                   "walkable", TRUE))])))

\* the working state of addPathingEnhancements
Enhancing(nodes, edges, s, counters) ==
    [s |-> s, counters |-> counters, nodes |-> nodes, edges |-> edges, flank |-> <<>>]

\* if (pathingEnhancements.enableWoolFlankRoutes) { ... }
woolFlankRoutes(e, config, team) ==
    flankRoutes(e, findNodes(e.nodes, WOOL_ENTRY),
                IdsOf(findNodes(e.nodes, HUB)), IdsOf(findNodes(e.nodes, WOOL)),
                N(config.teamHeight), team, 1)

\* addPathingEnhancements(nodes, edges, config, prng, team, counters)
addPathingEnhancements(nodes, edges, config, s, team, counters) ==
    Then(IF config.pathingEnhancements.enableWoolFlankRoutes
         THEN woolFlankRoutes(Enhancing(nodes, edges, s, counters), config, team)
         ELSE Enhancing(nodes, edges, s, counters), LAMBDA e1 :
        IF config.pathingEnhancements.enableSpawnWoolRushRoute THEN rushRoute(e1) ELSE e1)

\* ------------------------------------------------------------------------
\* applySymmetry
\* ------------------------------------------------------------------------

\* idParts.shift(); `${team}-${idParts.join('-')}`
symmetryId(id, team) == <<team>> \o Tail(id)

\* a faulty symmetryPoint, which mirrors in Rotation mode too
symmetryPointMirrorOnly(p, symmetryMode, totalWidth, totalHeight) ==
    Pt(totalWidth - p.x, p.y)

\* the point of applySymmetry: newPos, and the map of edge.nodes
symmetryPoint(p, symmetryMode, totalWidth, totalHeight) ==
    IF symmetryMode = MIRROR
    THEN Pt(totalWidth - p.x, p.y)
    ELSE Pt(totalWidth - p.x, totalHeight - p.y)

\* a faulty nodeMap.get, which leaves the id as it is
mapGetSame(nodeMap, id) == id

\* nodeMap.get(id): <<>> stands for undefined
mapGet(nodeMap, id) ==
    LET Is(m) == m.key = id
    IN  Then(SelectSeq(nodeMap, Is), LAMBDA hits :
            IF hits = <<>> THEN <<>> ELSE hits[Len(hits)].value)

\* nodeMap of applySymmetry after its first loop
symmetryMap(nodes, team) ==
    [i \in 1..Len(nodes) |-> [key |-> nodes[i].id, value |-> symmetryId(nodes[i].id, team)]]

symmetryNode(p, team, symmetryMode, totalWidth, totalHeight) ==
    [p EXCEPT !.id = symmetryId(p.id, team),
              !.pos = symmetryPoint(p.pos, symmetryMode, totalWidth, totalHeight),
              !.team = team]

symmetryEdge(edge, nodeMap, symmetryMode, totalWidth, totalHeight) ==
    [from |-> mapGet(nodeMap, edge.from),
     to |-> mapGet(nodeMap, edge.to),
     nodes |-> [k \in 1..Len(edge.nodes) |->
                   symmetryPoint(edge.nodes[k], symmetryMode, totalWidth, totalHeight)],
     isRushRoute |-> edge.isRushRoute,
     type |-> edge.type]

\* a faulty applySymmetry, which writes the new id, position and team into
\* the nodes it was given and the new endpoints and polyline into the edges
applySymmetryInPlace(nodes, edges, team, symmetryMode, totalWidth, totalHeight) ==
    Then(symmetryMap(nodes, team), LAMBDA nodeMap :
    Then([nodes |-> [i \in 1..Len(nodes) |->
                        symmetryNode(nodes[i], team, symmetryMode, totalWidth, totalHeight)],
          edges |-> [i \in 1..Len(edges) |->
                        symmetryEdge(edges[i], nodeMap, symmetryMode,
                                     totalWidth, totalHeight)]], LAMBDA new :
        [nodes |-> new.nodes, edges |-> new.edges, given |-> new]))

\* applySymmetry(nodes, edges, team, symmetryMode, totalWidth, totalHeight):
\* newNodes and newEdges, which it returns, and the arrays it was given as
\* it leaves them; every node and edge pushed is a new object
applySymmetry(nodes, edges, team, symmetryMode, totalWidth, totalHeight) ==
    Then(symmetryMap(nodes, team), LAMBDA nodeMap :
        [nodes |-> [i \in 1..Len(nodes) |->
                       symmetryNode(nodes[i], team, symmetryMode, totalWidth, totalHeight)],
         edges |-> [i \in 1..Len(edges) |->
                       symmetryEdge(edges[i], nodeMap, symmetryMode,
                                    totalWidth, totalHeight)],
         given |-> [nodes |-> nodes, edges |-> edges]])

\* orangeGrid of generate2TeamLayout
symmetryGrid(grid, symmetryMode, totalWidth, totalHeight) ==
    [i \in 1..Len(grid) |-> [j \in 1..Len(grid[i]) |->
        IF symmetryMode = MIRROR
        THEN [grid[i][j] EXCEPT !.x = totalWidth - (@ + grid[i][j].width)]
        ELSE [grid[i][j] EXCEPT !.x = totalWidth - (@ + grid[i][j].width),
                                !.y = totalHeight - (@ + grid[i][j].height)]]]

\* ------------------------------------------------------------------------
\* findNearestNode, createIslandChain, the spawn strategies of generateIslands
\* ------------------------------------------------------------------------

\* findNearestNode(targetPos, candidates): reduce throws a TypeError on an
\* empty array; callers are asked CanReduce first where the code does not
CanReduce(candidates) == candidates # <<>>
\* a faulty findNearestNode, which takes the last candidate
findNearestNodeLast(targetPos, candidates) == candidates[Len(candidates)]

findNearestNode(targetPos, candidates) == nearestOf(targetPos, candidates)

\* the points of the chain after prevPoint: for (let i = 1; i < numPoints; i++)
RECURSIVE chainPoints(_, _, _, _, _)
chainPoints(s, prevPoint, bounds, i, numPoints) ==
    IF i >= numPoints THEN [s |-> s, v |-> <<>>]
    ELSE Then(nextInt(s, Max2(bounds.x, prevPoint.x - N(20)),
                      Min2(bounds.x + bounds.width, prevPoint.x + N(20))), LAMBDA nx :
         Then(nextInt(nx.s, Max2(bounds.y, prevPoint.y - N(20)),
                      Min2(bounds.y + bounds.height, prevPoint.y + N(20))), LAMBDA ny :
         Then(chainPoints(ny.s, Pt(nx.v, ny.v), bounds, i + 1, numPoints), LAMBDA rest :
            [s |-> rest.s, v |-> <<Pt(nx.v, ny.v)>> \o rest.v])))

\* chain.map(p => ({ id: generateNodeId(counters, team, ISLAND), ... }))
RECURSIVE islandNodes(_, _, _, _)
islandNodes(counters, chain, team, i) ==
    IF i > Len(chain) THEN [counters |-> counters, v |-> <<>>]
    ELSE Then(generateNodeId(counters, team, ISLAND), LAMBDA g :
         Then(islandNodes(g.counters, chain, team, i + 1), LAMBDA rest :
            [counters |-> rest.counters,
             v |-> <<Node(g.id, ISLAND, chain[i], team)>> \o rest.v]))

\* for (let i = 0; i < strategicNodes.length - 1; i++) newEdges.push(...)
chainEdges(strategicNodes) ==
    [i \in 1..(Len(strategicNodes) - 1) |->
        Edge(strategicNodes[i], strategicNodes[i + 1], "walkable", FALSE)]

\* createIslandChain(prng, startPoint, bounds, team, counters)
createIslandChain(s, startPoint, bounds, team, counters) ==
    Then(nextInt(s, N(2), N(3)), LAMBDA numPoints :
    Then(chainPoints(numPoints.s, startPoint, bounds, 1, numPoints.v \div Scale), LAMBDA more :
    Then(islandNodes(counters, <<startPoint>> \o more.v, team, 1), LAMBDA strategicNodes :
        [s |-> more.s, counters |-> strategicNodes.counters,
         nodes |-> strategicNodes.v,
         edges |-> chainEdges(strategicNodes.v)])))

\* The state of one generateIslands call: the generator and counter table,
\* newNodes, newEdges, islandCount, the strategies still in shuffledSpawns,
\* and the record of the strategies called, with what each returned.
IslandState(s, counters, shuffledSpawns) ==
    [s |-> s, counters |-> counters, newNodes |-> <<>>, newEdges |-> <<>>,
     islandCount |-> 0, shuffledSpawns |-> shuffledSpawns, called |-> <<>>,
     ok |-> TRUE]

\* what a strategy that returned true leaves in the record of calls
Spawned(name, zone, nearestNode, island) ==
    [name |-> name, result |-> TRUE, zone |-> zone, from |-> nearestNode.id,
     first |-> island.nodes[1].id, size |-> Len(island.nodes)]

\* the end of every strategy: the chain, its pushes, the bridgeable edge
spawnIsland(st, s, startPos, zone, nearestNode, name) ==
    Then(createIslandChain(s, startPos, zone, BLUE, st.counters), LAMBDA island :
        [st EXCEPT !.s = island.s, !.counters = island.counters,
                   !.newNodes = @ \o island.nodes,
                   !.newEdges = @ \o island.edges
                                  \o <<Edge(nearestNode, island.nodes[1], "bridgeable", FALSE)>>,
                   !.called = Append(@, Spawned(name, zone, nearestNode, island))])

\* a strategy that returns false
noIsland(st, name) ==
    [st EXCEPT !.called = Append(@, [name |-> name, result |-> FALSE])]

\* grid.flat().find(z => p.pos.y >= z.y && p.pos.y < z.y + z.height)?.row;
\* -1 stands for undefined
rowOfY(grid, y) ==
    LET In(z) == y >= z.y /\ y < z.y + z.height
    IN  Then(SelectSeq(grid[1] \o grid[2] \o grid[3], In), LAMBDA hits :
            IF hits = <<>> THEN -1 ELSE hits[1].row)

\* [0, 1, 2].filter(i => !usedFrontlineRows.has(i)).map(i => grid[i][2])
emptyFrontlineZones(grid, existingNodes) ==
    Then(findNodes(existingNodes, FRONT_LINE), LAMBDA frontlines :
    Then({rowOfY(grid, frontlines[i].pos.y) : i \in 1..Len(frontlines)},
         LAMBDA usedFrontlineRows :
        LET Unused(i) == i \notin usedFrontlineRows
        IN  Then(SelectSeq(<<0, 1, 2>>, Unused), LAMBDA rows :
                [k \in 1..Len(rows) |-> Cell(grid, rows[k], 2)])))

\* if (islandGeneration.spawnInEmptyZones) availableSpawns.push(() => ...)
spawnInEmptyZones(st, grid, existingNodes) ==
    Then(emptyFrontlineZones(grid, existingNodes), LAMBDA zones :
        IF zones = <<>> THEN noIsland(st, "emptyZones")
        ELSE IF ~CanReduce(existingNodes) THEN [st EXCEPT !.ok = FALSE]
        ELSE Then(shuffle(st.s, zones), LAMBDA sh :
             IF 1 \in sh.holes THEN [st EXCEPT !.ok = FALSE]
             ELSE
             Then(sh.v[1], LAMBDA zone :
             Then(nextInt(sh.s, N(10), zone.width - N(10)), LAMBDA sx :
             Then(nextInt(sx.s, N(10), zone.height - N(10)), LAMBDA sy :
                spawnIsland(st, sy.s, Pt(zone.x + sx.v, zone.y + sy.v), zone,
                            findNearestNode(Pt(zone.x, zone.y + (zone.height \div 2)),
                                            existingNodes),
                            "emptyZones"))))))

fourthColWidth == 30

\* if (islandGeneration.spawnInFourthColumn && config.numTeams === 2) ...
spawnInFourthColumn(st, config, existingNodes, totalHeight) ==
    LET Relevant(p) == p.type = FRONT_LINE \/ p.type = FRONT_LINE_ENTRY
    IN  Then(SelectSeq(existingNodes, Relevant), LAMBDA relevantNodes :
            IF relevantNodes = <<>> THEN noIsland(st, "fourthColumn")
            ELSE Then(shuffle(st.s, relevantNodes), LAMBDA sh :
                 IF 1 \in sh.holes THEN [st EXCEPT !.ok = FALSE]
                 ELSE
                 Then(nextInt(sh.s, N(15), N(25)), LAMBDA dx :
                 Then(nextInt(dx.s, -N(10), N(10)), LAMBDA dy :
                    spawnIsland(st, dy.s,
                                Pt(sh.v[1].pos.x + dx.v, sh.v[1].pos.y + dy.v),
                                Zone(N(config.teamWidth), 0, N(fourthColWidth),
                                     totalHeight, -1, 3),
                                sh.v[1], "fourthColumn")))))

\* the zone of the center gap strategy
centerGapZone(config, totalWidth, totalHeight) ==
    Zone((totalWidth - N(config.teamGap)) \div 2, 0, N(config.teamGap) \div 2,
         totalHeight, -1, -1)

\* if (islandGeneration.spawnInCenterGap) ...
spawnInCenterGap(st, config, existingNodes, totalWidth, totalHeight) ==
    Then(findNodes(existingNodes, FRONT_LINE), LAMBDA relevantNodes :
        IF relevantNodes = <<>> THEN noIsland(st, "centerGap")
        ELSE Then(centerGapZone(config, totalWidth, totalHeight), LAMBDA zone :
             Then(nextInt(st.s, N(20), totalHeight - N(20)), LAMBDA startY :
             Then(nextInt(startY.s, N(5), zone.width - N(5)), LAMBDA sx :
             Then(Pt(zone.x + sx.v, startY.v), LAMBDA startPos :
                spawnIsland(st, sx.s, startPos, zone,
                            findNearestNode(startPos, relevantNodes), "centerGap"))))))

\* spawnFn(); a TypeError when shuffledSpawns.pop() gave undefined
callSpawn(st, name, config, grid, existingNodes, totalWidth, totalHeight) ==
    CASE name = "undefined" -> [st EXCEPT !.ok = FALSE]
      [] name = "emptyZones" -> spawnInEmptyZones(st, grid, existingNodes)
      [] name = "fourthColumn" -> spawnInFourthColumn(st, config, existingNodes, totalHeight)
      [] name = "centerGap" ->
            spawnInCenterGap(st, config, existingNodes, totalWidth, totalHeight)

\* availableSpawns, in the order of the three ifs
availableSpawns(config) ==
    (IF config.islandGeneration.spawnInEmptyZones THEN <<"emptyZones">> ELSE <<>>)
    \o (IF config.islandGeneration.spawnInFourthColumn /\ config.numTeams = 2
        THEN <<"fourthColumn">> ELSE <<>>)
    \o (IF config.islandGeneration.spawnInCenterGap THEN <<"centerGap">> ELSE <<>>)

\* ------------------------------------------------------------------------
\* generate4TeamLayout: placement, center hubs, rotateLayout
\* ------------------------------------------------------------------------

\* the wool zones of the quadrant: if (config.woolsPerTeam === 1) ... else ...
woolZones4(grid, config) ==
    IF config.woolsPerTeam = 1 THEN <<Cell(grid, 0, 1)>>
    ELSE <<Cell(grid, 0, 1), Cell(grid, 1, 0)>>

\* [blueGrid[1][1], ...].forEach(zone => blueNodes.push(hub in zone))
RECURSIVE place4Hubs(_, _)
place4Hubs(b, zones) ==
    IF zones = <<>> THEN b
    ELSE Then(placePointsInZone(b.s, Head(zones), 1, N(10)), LAMBDA h :
         Then(pushNode([b EXCEPT !.s = h.s], BLUE, HUB, h.v[1]), LAMBDA b1 :
            place4Hubs(b1, Tail(zones))))

\* the nodes of the reference quadrant, in the order of the pushes
place4Nodes(b, grid, config) ==
    Then(pushPair(b, Cell(grid, 0, 0), Dist(config.spawnEntryDistance), BLUE,
                  SPAWN, SPAWN_ENTRY), LAMBDA b1 :
    Then(pushWools(b1, [v |-> woolZones4(grid, config), holes |-> {}], 1, BLUE,
                   Dist(config.woolEntryDistance)), LAMBDA b2 :
    Then(place4Hubs(b2, <<Cell(grid, 1, 1), Cell(grid, 0, 2), Cell(grid, 2, 0),
                          Cell(grid, 1, 2), Cell(grid, 2, 1)>>), LAMBDA b3 :
        pushPair(b3, Cell(grid, 2, 2), Dist(config.frontlineEntryDistance), BLUE,
                 FRONT_LINE_ENTRY, FRONT_LINE))))

\* for (let i = 0; i < 4; i++) centerHubs.push(...): the id is generated
\* before the two draws
RECURSIVE placeCenterHubs(_, _, _, _, _)
placeCenterHubs(s, counters, center, gap, i) ==
    IF i = 4 THEN [s |-> s, counters |-> counters, v |-> <<>>]
    ELSE Then(generateNodeId(counters, BLUE, CENTER_HUB), LAMBDA g :
         Then(nextInt(s, -(gap \div 3), gap \div 3), LAMBDA dx :
         Then(nextInt(dx.s, -(gap \div 3), gap \div 3), LAMBDA dy :
         Then(placeCenterHubs(dy.s, g.counters, center, gap, i + 1), LAMBDA rest :
            [s |-> rest.s, counters |-> rest.counters,
             v |-> <<Node(g.id, CENTER_HUB, Pt(center.x + dx.v, center.y + dy.v), BLUE)>>
                   \o rest.v]))))

\* frontlineNodes.forEach(fl => blueEdges.push(fl -> closest center hub))
centerEdges(frontlineNodes, hubs) ==
    [i \in 1..Len(frontlineNodes) |->
        Edge(frontlineNodes[i], findNearestNode(frontlineNodes[i].pos, hubs),
             "walkable", FALSE)]

\* rotatePoint(p, angle, center) for the quarter turns.  Math.cos and
\* Math.sin of angle * (Math.PI / 180) are within 2e-16 of 0, 1 and -1; the
\* rotated coordinates are taken to the lattice, as these values give them.
rotatePoint(p, angle, center) ==
    LET cos == CASE angle = 90 -> 0 [] angle = 180 -> -1 [] angle = 270 -> 0
        sin == CASE angle = 90 -> 1 [] angle = 180 -> 0 [] angle = 270 -> -1
    IN  Pt((p.x - center.x) * cos - (p.y - center.y) * sin + center.x,
           (p.x - center.x) * sin + (p.y - center.y) * cos + center.y)

\* the id a node of baseLayout gets: `${newTeam}-${idParts[1]}-${idParts[2]}`,
\* and its own id for a center hub
rotateId(p, newTeam) ==
    IF p.type = CENTER_HUB THEN p.id ELSE <<newTeam, p.id[2], p.id[3]>>

\* the nodes of rotateLayout, from node i on; seen is nodeMap's key set
RECURSIVE rotateNodes(_, _, _, _, _, _)
rotateNodes(nodes, angle, newTeam, center, seen, i) ==
    IF i > Len(nodes) THEN <<>>
    ELSE (IF nodes[i].type = CENTER_HUB
          THEN (IF nodes[i].id \in seen THEN <<>> ELSE <<nodes[i]>>)
          ELSE <<[nodes[i] EXCEPT !.id = rotateId(nodes[i], newTeam), !.team = newTeam,
                                  !.pos = rotatePoint(@, angle, center)]>>)
         \o rotateNodes(nodes, angle, newTeam, center, seen \cup {nodes[i].id}, i + 1)

\* the zone with its new top left corner, and its sides swapped or not
turnedZone(zone, corner, angle, center, swap) ==
    Then(rotatePoint(corner, angle, center), LAMBDA newTopLeft :
        [zone EXCEPT !.x = newTopLeft.x, !.y = newTopLeft.y,
                     !.width = IF swap THEN zone.height ELSE zone.width,
                     !.height = IF swap THEN zone.width ELSE zone.height])

rotateZone(zone, angle, center) ==
    CASE angle = 90 ->
            turnedZone(zone, Pt(zone.x, zone.y + zone.height), angle, center, TRUE)
      [] angle = 180 ->
            turnedZone(zone, Pt(zone.x + zone.width, zone.y + zone.height), angle,
                       center, FALSE)
      [] angle = 270 ->
            turnedZone(zone, Pt(zone.x + zone.width, zone.y), angle, center, TRUE)
      [] OTHER -> zone

\* nodeMap of rotateLayout after its forEach
rotateMap(nodes, newTeam) ==
    [i \in 1..Len(nodes) |-> [key |-> nodes[i].id, value |-> rotateId(nodes[i], newTeam)]]

\* rotateLayout(baseLayout, angle, newTeam): the layout it returns, and
\* baseLayout as it leaves it; the center hubs are pushed as they are, every
\* other node, every edge and every zone is a new object
rotateLayout(baseLayout, angle, newTeam, center) ==
    Then(rotateMap(baseLayout.nodes, newTeam), LAMBDA nodeMap :
        [v |-> [nodes |-> rotateNodes(baseLayout.nodes, angle, newTeam, center, {}, 1),
                edges |-> [i \in 1..Len(baseLayout.edges) |->
                              [baseLayout.edges[i] EXCEPT
                                  !.from = mapGet(nodeMap, @),
                                  !.to = mapGet(nodeMap, @),
                                  !.nodes = [k \in 1..Len(@) |->
                                                rotatePoint(@[k], angle, center)]]],
                grid |-> [i \in 1..Len(baseLayout.grid) |->
                             [j \in 1..Len(baseLayout.grid[i]) |->
                                 rotateZone(baseLayout.grid[i][j], angle, center)]]],
         baseLayout |-> baseLayout])

\* the four teams: rotateLayout(blueTeamLayout, 90, Team.ORANGE), then 180
\* and 270 on blueTeamLayout as the call before left it
rotatedTeams(blue, center) ==
    Then(rotateLayout(blue, 90, ORANGE, center), LAMBDA orange :
    Then(rotateLayout(orange.baseLayout, 180, GREEN, center), LAMBDA green :
    Then(rotateLayout(green.baseLayout, 270, YELLOW, center), LAMBDA yellow :
        (BLUE :> yellow.baseLayout) @@ (ORANGE :> orange.v) @@ (GREEN :> green.v)
        @@ (YELLOW :> yellow.v))))

\* ------------------------------------------------------------------------
\* rotatePoint in IEEE 754 double arithmetic
\* ------------------------------------------------------------------------

\* A natural number of any size: its digits to the base Radix, the lowest
\* first, without leading zeros; <<>> is 0.
Radix == 32 * 1024
RadixBits == 15

Digit(a, i) == IF i <= Len(a) THEN a[i] ELSE 0

RECURSIVE BigTrim(_)
BigTrim(a) ==
    IF a # <<>> /\ a[Len(a)] = 0 THEN BigTrim(SubSeq(a, 1, Len(a) - 1)) ELSE a

RECURSIVE BigOf(_)
BigOf(n) == IF n = 0 THEN <<>> ELSE <<n % Radix>> \o BigOf(n \div Radix)

RECURSIVE BigAddFrom(_, _, _, _)
BigAddFrom(a, b, i, carry) ==
    IF i > Len(a) /\ i > Len(b) THEN BigOf(carry)
    ELSE Then(Digit(a, i) + Digit(b, i) + carry, LAMBDA d :
            <<d % Radix>> \o BigAddFrom(a, b, i + 1, d \div Radix))

BigAdd(a, b) == BigAddFrom(a, b, 1, 0)

\* a - b, for a >= b
RECURSIVE BigSubFrom(_, _, _, _)
BigSubFrom(a, b, i, borrow) ==
    IF i > Len(a) THEN <<>>
    ELSE Then(Digit(a, i) - Digit(b, i) - borrow, LAMBDA d :
            <<(d + Radix) % Radix>> \o BigSubFrom(a, b, i + 1, IF d < 0 THEN 1 ELSE 0))

BigSub(a, b) == BigTrim(BigSubFrom(a, b, 1, 0))

\* a < b, from digit i down
RECURSIVE BigLessFrom(_, _, _)
BigLessFrom(a, b, i) ==
    IF i = 0 THEN FALSE
    ELSE IF a[i] # b[i] THEN a[i] < b[i]
    ELSE BigLessFrom(a, b, i - 1)

BigLess(a, b) ==
    IF Len(a) # Len(b) THEN Len(a) < Len(b) ELSE BigLessFrom(a, b, Len(a))

\* a * d for one digit d
RECURSIVE BigMulDigitFrom(_, _, _, _)
BigMulDigitFrom(a, d, i, carry) ==
    IF i > Len(a) THEN BigOf(carry)
    ELSE Then(a[i] * d + carry, LAMBDA t :
            <<t % Radix>> \o BigMulDigitFrom(a, d, i + 1, t \div Radix))

BigMulDigit(a, d) == BigTrim(BigMulDigitFrom(a, d, 1, 0))

\* a * b = a * b[i] + Radix * (a * the digits of b above i)
RECURSIVE BigMulFrom(_, _, _)
BigMulFrom(a, b, i) ==
    IF i > Len(b) THEN <<>>
    ELSE Then(BigMulFrom(a, b, i + 1), LAMBDA high :
            BigAdd(BigMulDigit(a, b[i]), IF high = <<>> THEN <<>> ELSE <<0>> \o high))

BigMul(a, b) == BigTrim(BigMulFrom(a, b, 1))

\* a * 2^k
BigShl(a, k) ==
    IF a = <<>> THEN <<>>
    ELSE [i \in 1..(k \div RadixBits) |-> 0] \o BigMulDigit(a, 2^(k % RadixBits))

\* floor(a / d) for one digit d > 0, from digit i down with remainder rem
RECURSIVE BigDivDigitFrom(_, _, _, _)
BigDivDigitFrom(a, d, i, rem) ==
    IF i = 0 THEN <<>>
    ELSE Then(rem * Radix + a[i], LAMBDA t :
            BigDivDigitFrom(a, d, i - 1, t % d) \o <<t \div d>>)

\* floor(a / 2^k)
BigShr(a, k) ==
    IF Len(a) <= k \div RadixBits THEN <<>>
    ELSE Then(SubSeq(a, (k \div RadixBits) + 1, Len(a)), LAMBDA top :
            BigTrim(BigDivDigitFrom(top, 2^(k % RadixBits), Len(top), 0)))

\* the number of binary digits of a
BitLen(a) ==
    IF a = <<>> THEN 0
    ELSE RadixBits * (Len(a) - 1)
         + (CHOOSE n \in 1..RadixBits : 2^(n - 1) <= a[Len(a)] /\ a[Len(a)] < 2^n)

\* the number of zero binary digits at the low end of a # 0
RECURSIVE LowZeros(_, _)
LowZeros(a, i) ==
    IF a[i] = 0 THEN RadixBits + LowZeros(a, i + 1)
    ELSE CHOOSE n \in 0..(RadixBits - 1) : a[i] % 2^n = 0 /\ a[i] % 2^(n + 1) # 0

\* A finite double: (-1)^neg * m * 2^e, with m odd, or m = 0 and e = 0.
\* The values of this model are far from the subnormal and overflow ranges.
SignificandBits == 53
DoubleZero == [neg |-> FALSE, m |-> <<>>, e |-> 0]

DoubleNorm(neg, m, e) ==
    IF m = <<>> THEN DoubleZero
    ELSE Then(LowZeros(m, 1), LAMBDA z : [neg |-> neg, m |-> BigShr(m, z), e |-> e + z])

\* the double k * 2^e, for an integer k
DoubleOf(k, e) == DoubleNorm(k < 0, BigOf(IF k < 0 THEN -k ELSE k), e)

\* m * 2^e rounded to the nearest double, ties to the even significand
RoundToDouble(neg, m, e) ==
    IF BitLen(m) <= SignificandBits THEN DoubleNorm(neg, m, e)
    ELSE Then(BitLen(m) - SignificandBits, LAMBDA sh :
         Then(BigShr(m, sh), LAMBDA q :
         Then(BigSub(m, BigShl(q, sh)), LAMBDA r :
         Then(BigShl(<<1>>, sh - 1), LAMBDA half :
            DoubleNorm(neg,
                       IF BigLess(half, r) \/ (r = half /\ q[1] % 2 = 1)
                       THEN BigAdd(q, <<1>>) ELSE q,
                       e + sh)))))

DoubleNeg(a) == IF a.m = <<>> THEN a ELSE [a EXCEPT !.neg = ~a.neg]

\* a * b
DoubleMul(a, b) == RoundToDouble(a.neg # b.neg, BigMul(a.m, b.m), a.e + b.e)

\* the exact sum of two numbers on one exponent, rounded
SumOnExponent(aneg, am, bneg, bm, e) ==
    IF aneg = bneg THEN RoundToDouble(aneg, BigAdd(am, bm), e)
    ELSE IF BigLess(am, bm) THEN RoundToDouble(bneg, BigSub(bm, am), e)
    ELSE RoundToDouble(aneg, BigSub(am, bm), e)

\* a + b
DoubleAdd(a, b) ==
    IF a.m = <<>> THEN b
    ELSE IF b.m = <<>> THEN a
    ELSE Then(Min2(a.e, b.e), LAMBDA e :
            SumOnExponent(a.neg, BigShl(a.m, a.e - e), b.neg, BigShl(b.m, b.e - e), e))

\* a - b
DoubleSub(a, b) == DoubleAdd(a, DoubleNeg(b))

\* |a| < |b|
DoubleAbsLess(a, b) ==
    IF b.m = <<>> THEN FALSE
    ELSE IF a.m = <<>> THEN TRUE
    ELSE Then(Min2(a.e, b.e), LAMBDA e :
            BigLess(BigShl(a.m, a.e - e), BigShl(b.m, b.e - e)))

\* bit k of a (bit 0 is the lowest)
BitOf(a, k) == (Digit(a, (k \div RadixBits) + 1) \div 2^(k % RadixBits)) % 2

\* The binary digits of n from bit hi - 1 down to bit lo, brought down one by
\* one onto the remainder rem < d of the digits above them and divided by
\* d > 0: the digits of the quotient q and the remainder r. The range is
\* halved, so that the depth is the logarithm of its length.
RECURSIVE BigDivModRange(_, _, _, _, _)
BigDivModRange(n, d, rem, hi, lo) ==
    IF hi <= lo THEN [q |-> <<>>, r |-> rem]
    ELSE IF hi = lo + 1
    THEN Then(BigAdd(BigShl(rem, 1), BigOf(BitOf(n, lo))), LAMBDA r :
            IF BigLess(r, d) THEN [q |-> <<>>, r |-> r]
            ELSE [q |-> <<1>>, r |-> BigSub(r, d)])
    ELSE Then((hi + lo) \div 2, LAMBDA mid :
         Then(BigDivModRange(n, d, rem, hi, mid), LAMBDA high :
         Then(BigDivModRange(n, d, high.r, mid, lo), LAMBDA low :
            [q |-> BigAdd(BigShl(high.q, mid - lo), low.q), r |-> low.r])))

\* floor(n / d) and n % d
BigDivMod(n, d) == BigDivModRange(n, d, <<>>, BitLen(n), 0)

\* a / b for b # 0: the quotient of the significands to at least
\* SignificandBits + 3 binary digits, a last digit standing for a remainder
\* that is not zero, rounded
DoubleDiv(a, b) ==
    IF a.m = <<>> THEN DoubleZero
    ELSE Then(SignificandBits + 3 + BitLen(b.m) - BitLen(a.m), LAMBDA k :
         Then(BigDivMod(BigShl(a.m, k), b.m), LAMBDA d :
            RoundToDouble(a.neg # b.neg,
                          IF d.r = <<>> THEN BigShl(d.q, 1)
                          ELSE BigAdd(BigShl(d.q, 1), <<1>>),
                          a.e - b.e - k - 1)))

\* a < b
DoubleLess(a, b) ==
    IF a.neg # b.neg THEN a.neg
    ELSE IF a.neg THEN DoubleAbsLess(b, a)
    ELSE DoubleAbsLess(a, b)

\* ------------------------------------------------------------------------
\* pickCuts in IEEE 754 double arithmetic
\* ------------------------------------------------------------------------

\* next(): (this.seed - 1) / 2147483646 of the new state s
nextDouble(s) == DoubleDiv(DoubleOf(s - 1, 0), DoubleOf(Modulus - 1, 0))

\* a faulty sum, which is the last value alone
sumDoubleLast(vals, i, acc) == vals[Len(vals)]

\* randomValues.reduce((a, b) => a + b, 0)
RECURSIVE sumDouble(_, _, _)
sumDouble(vals, i, acc) ==
    IF i > Len(vals) THEN acc ELSE sumDouble(vals, i + 1, DoubleAdd(acc, vals[i]))

\* for (let i = 0; i < numCuts; i++) randomValues.push(prng.next())
RECURSIVE drawDoubles(_, _, _)
drawDoubles(s, n, vals) ==
    IF n = 0 THEN [s |-> s, v |-> vals]
    ELSE Then(nextState(s), LAMBDA s1 :
         Then(Append(vals, nextDouble(s1)), LAMBDA vs : drawDoubles(s1, n - 1, vs)))

\* cut = lastCut + minCellSize + proportions[i] * availableSize, added from
\* the left, with proportions[i] = v / sum
RECURSIVE cutsDoubleFrom(_, _, _, _, _, _)
cutsDoubleFrom(vals, sum, availableSize, minCellSize, cuts, i) ==
    IF i > Len(vals) THEN cuts
    ELSE Then(DoubleAdd(DoubleAdd(IF cuts = <<>> THEN DoubleZero ELSE cuts[Len(cuts)],
                                  DoubleOf(minCellSize, 0)),
                        DoubleMul(DoubleDiv(vals[i], sum), DoubleOf(availableSize, 0))),
              LAMBDA cut :
         Then(Append(cuts, cut), LAMBDA cs :
            cutsDoubleFrom(vals, sum, availableSize, minCellSize, cs, i + 1)))

\* pickCuts(prng, totalSize, numCuts, minCellSize) on whole sizes, in units;
\* ok = FALSE is the throw
pickCutsDouble(s, totalSize, numCuts, minCellSize) ==
    Then(totalSize - minCellSize * (numCuts + 1), LAMBDA availableSize :
        IF availableSize < 0
        THEN [ok |-> FALSE, s |-> s, v |-> <<>>]
        ELSE Then(drawDoubles(s, numCuts, <<>>), LAMBDA d :
             Then(sumDouble(d.v, 1, DoubleZero), LAMBDA sum :
                [ok |-> TRUE, s |-> d.s,
                 v |-> cutsDoubleFrom(d.v, sum, availableSize, minCellSize, <<>>, 1)])))

\* placePairedPoints: objectiveMaxX <= zone.x + padding, the test of the
\* fallback for a zone too narrow, for a zone at zoneX of width zoneWidth,
\* with objectiveMaxX = zone.x + zone.width - padding - distance.min
narrowZoneDouble(zoneX, zoneWidth, distanceMin, pad) ==
    ~DoubleLess(DoubleAdd(zoneX, DoubleOf(pad, 0)),
                DoubleSub(DoubleSub(DoubleAdd(zoneX, zoneWidth), DoubleOf(pad, 0)),
                          DoubleOf(distanceMin, 0)))

\* [cuts[0], cuts[1] - cuts[0], ..., totalSize - cuts[numCuts - 1]]: the
\* lengths createGrid gives the cells
segmentsDouble(cuts, totalSize) ==
    [i \in 1..(Len(cuts) + 1) |->
        IF i = 1 THEN cuts[1]
        ELSE IF i <= Len(cuts) THEN DoubleSub(cuts[i], cuts[i - 1])
        ELSE DoubleSub(DoubleOf(totalSize, 0), cuts[Len(cuts)])]

\* Math.cos(angle * (Math.PI / 180)) and Math.sin(angle * (Math.PI / 180))
\* for the three angles of generate4TeamLayout: the doubles
\* 6.123233995736766e-17, -1 and -1.8369701987210297e-16, and
\* 1, 1.2246467991473532e-16 and -1
cosQuarter == <<23559, 26152, 6296, 141>>
cosThreeQuarters == <<17669, 19614, 29298, 105>>

CosOf(angle) ==
    CASE angle = 90 -> [neg |-> FALSE, m |-> cosQuarter, e |-> -106]
      [] angle = 180 -> DoubleOf(-1, 0)
      [] angle = 270 -> [neg |-> TRUE, m |-> cosThreeQuarters, e |-> -104]

\* a faulty sine, with sin(270 degrees) = 1
SinOfUnsigned(angle) ==
    CASE angle = 90 -> DoubleOf(1, 0)
      [] angle = 180 -> [neg |-> FALSE, m |-> cosQuarter, e |-> -105]
      [] angle = 270 -> DoubleOf(1, 0)

SinOf(angle) ==
    CASE angle = 90 -> DoubleOf(1, 0)
      [] angle = 180 -> [neg |-> FALSE, m |-> cosQuarter, e |-> -105]
      [] angle = 270 -> DoubleOf(-1, 0)

\* rotatePoint(p, angle, center), operation by operation
rotatePointDouble(p, angle, center) ==
    Then(DoubleSub(p.x, center.x), LAMBDA translatedX :
    Then(DoubleSub(p.y, center.y), LAMBDA translatedY :
    Then(DoubleSub(DoubleMul(translatedX, CosOf(angle)),
                   DoubleMul(translatedY, SinOf(angle))), LAMBDA rotatedX :
    Then(DoubleAdd(DoubleMul(translatedX, SinOf(angle)),
                   DoubleMul(translatedY, CosOf(angle))), LAMBDA rotatedY :
        Pt(DoubleAdd(rotatedX, center.x), DoubleAdd(rotatedY, center.y))))))

\* ------------------------------------------------------------------------
\* Configurations
\* ------------------------------------------------------------------------

\* how many seeds, how many islands per team at most, how many calls of
\* generateLayout in a row
NumSeeds == 6
NumSmallSeeds == 8
MaxIslands == 3
MaxCalls == 3

Seeds == {20250101 + k * 98765431 : k \in 0..(NumSeeds - 1)}
FewSeeds == {20250101 + k * 98765431 : k \in 0..((NumSeeds - 1) \div 3)}

\* initialConfig of App.tsx
InitialConfig(seed) ==
    [teamWidth |-> 90, teamHeight |-> 160, teamGap |-> 24, laneWidth |-> 4,
     seed |-> seed, gridMode |-> STANDARD, symmetryMode |-> ROTATION,
     symmetricalTeamLayout |-> FALSE,
     spawnEntryDistance |-> [min |-> 10, max |-> 25],
     woolEntryDistance |-> [min |-> 10, max |-> 25],
     frontlineEntryDistance |-> [min |-> 10, max |-> 25],
     islandGeneration |-> [enabled |-> TRUE, maxIslandsPerTeam |-> 2,
                           spawnInFourthColumn |-> TRUE, spawnInCenterGap |-> TRUE,
                           spawnInEmptyZones |-> TRUE],
     pathingEnhancements |-> [enableWoolFlankRoutes |-> TRUE,
                              enableSpawnWoolRushRoute |-> FALSE],
     numTeams |-> 2, woolsPerTeam |-> 2]

NoIslands ==
    [enabled |-> FALSE, maxIslandsPerTeam |-> 2, spawnInFourthColumn |-> TRUE,
     spawnInCenterGap |-> TRUE, spawnInEmptyZones |-> TRUE]
NoPathing == [enableWoolFlankRoutes |-> FALSE, enableSpawnWoolRushRoute |-> FALSE]

\* the plain configuration: no islands, no route enhancement
Plain(seed) ==
    [InitialConfig(seed) EXCEPT !.islandGeneration = NoIslands,
                                !.pathingEnhancements = NoPathing]

\* 2-team layouts: every grid mode, symmetry and enhancement
TwoTeamConfigs ==
    {[Plain(seed) EXCEPT !.symmetricalTeamLayout = sym, !.gridMode = gm,
                         !.symmetryMode = sm,
                         !.pathingEnhancements = [enableWoolFlankRoutes |-> fl,
                                                  enableSpawnWoolRushRoute |-> ru]] :
        seed \in Seeds, sym \in BOOLEAN, gm \in {STANDARD, ROW_INDEPENDENT},
        sm \in {MIRROR, ROTATION}, fl \in BOOLEAN, ru \in BOOLEAN}

\* 4-team layouts, with the 2-team options left on
FourTeamConfigs ==
    {[InitialConfig(seed) EXCEPT !.numTeams = 4, !.woolsPerTeam = w, !.teamGap = g,
                                 !.teamWidth = tw] :
        seed \in Seeds, w \in {1, 2}, g \in {24, 9}, tw \in {90, 120}}

\* territory sizes, from infeasible to roomy
SizeConfigs ==
    {[Plain(seed) EXCEPT !.teamWidth = tw, !.teamHeight = th, !.numTeams = n,
                         !.symmetricalTeamLayout = sym] :
        seed \in FewSeeds, tw \in {50, 59, 60, 79, 80, 130}, th \in {50, 59, 60, 61, 100},
        n \in {2, 4}, sym \in BOOLEAN}

\* distance constraints: usual, tight, wider than any zone, inverted, zero
Distances ==
    {[min |-> 10, max |-> 25], [min |-> 1, max |-> 5], [min |-> 30, max |-> 40],
     [min |-> 200, max |-> 300], [min |-> 25, max |-> 10], [min |-> 0, max |-> 0]}

DistanceConfigs ==
    {[InitialConfig(seed) EXCEPT !.spawnEntryDistance = d, !.woolEntryDistance = d,
                                 !.frontlineEntryDistance = d, !.teamWidth = tw,
                                 !.numTeams = n, !.symmetricalTeamLayout = sym] :
        seed \in FewSeeds, d \in Distances, tw \in {90, 130}, n \in {2, 4},
        sym \in BOOLEAN}

\* island generation: every strategy subset and budget
IslandConfigs ==
    {[InitialConfig(seed) EXCEPT
         !.islandGeneration = [enabled |-> en, maxIslandsPerTeam |-> mx,
                               spawnInFourthColumn |-> s4, spawnInCenterGap |-> sc,
                               spawnInEmptyZones |-> se],
         !.symmetricalTeamLayout = sym, !.teamGap = g] :
        seed \in FewSeeds, en \in BOOLEAN, mx \in 0..MaxIslands, s4 \in BOOLEAN,
        sc \in BOOLEAN, se \in BOOLEAN, sym \in BOOLEAN, g \in {24, 6}}

\* the seed whose remainder is -(2^31 - 2), which the constructor takes to
\* the state 0
ZeroStateSeed == -(Modulus - 1)

\* the initial configuration on that seed, in every mode, with and without
\* islands
ZeroStateConfigs ==
    {[InitialConfig(ZeroStateSeed) EXCEPT !.numTeams = n, !.symmetricalTeamLayout = sym,
                                          !.islandGeneration.enabled = en] :
        n \in {2, 4}, sym \in BOOLEAN, en \in BOOLEAN}

\* the plain configuration on the seeds 1, 2, ..., with and without the
\* symmetrical team layout
SmallSeedConfigs ==
    {[Plain(seed) EXCEPT !.symmetricalTeamLayout = sym] :
        seed \in 1..NumSmallSeeds, sym \in BOOLEAN}

\* a seed whose top Wool is nearer the bottom WoolEntry than its own, with
\* every pathing enhancement
SharedEntryConfigs ==
    {[InitialConfig(7975) EXCEPT
         !.pathingEnhancements = [enableWoolFlankRoutes |-> fl,
                                  enableSpawnWoolRushRoute |-> ru]] :
        fl \in BOOLEAN, ru \in BOOLEAN}

\* a team gap whose half is not a whole number, and the next even one, with
\* the center gap strategy alone and with all three
OddGapConfigs ==
    {[InitialConfig(2) EXCEPT
         !.teamGap = g,
         !.islandGeneration.spawnInEmptyZones = others,
         !.islandGeneration.spawnInFourthColumn = others] :
        g \in {13, 14}, others \in BOOLEAN}

Configs ==
    TwoTeamConfigs \cup FourTeamConfigs \cup SizeConfigs \cup DistanceConfigs
    \cup IslandConfigs \cup ZeroStateConfigs \cup SmallSeedConfigs
    \cup SharedEntryConfigs \cup OddGapConfigs

\* the configurations of the runs of several calls: two seeds, and for each
\* the initial configuration, its 4-team variant and a territory too narrow
RunConfigs ==
    UNION {{InitialConfig(seed),
            [InitialConfig(seed) EXCEPT !.numTeams = 4],
            [InitialConfig(seed) EXCEPT !.teamWidth = 79]} :
           seed \in {20250101, 20250101 + 98765431}}

\* 4-team configurations that differ in the options of the 2-team mode only:
\* the symmetrical team layout, the grid mode, and the route enhancements
\* and islands together
FourTeamOptionConfigs ==
    {[Plain(20250101) EXCEPT
         !.numTeams = 4, !.symmetricalTeamLayout = sym, !.gridMode = gm,
         !.pathingEnhancements = [enableWoolFlankRoutes |-> routes,
                                  enableSpawnWoolRushRoute |-> routes],
         !.islandGeneration.enabled = routes] :
        sym \in BOOLEAN, gm \in {STANDARD, ROW_INDEPENDENT}, routes \in BOOLEAN}

\* ------------------------------------------------------------------------
\* generateLayout, generate2TeamLayout, generate4TeamLayout as a state machine
\* ------------------------------------------------------------------------

VARIABLES
    pc,          \* where the running call is; "idle" between calls
    config,      \* the argument of the running call
    prng,        \* the seed field of the call's PRNG
    counters,    \* the call's counter table
    blueGrid,    \* blueGrid
    blueNodes,   \* blueNodes
    blueEdges,   \* blueEdges
    pairs,       \* every placePairedPoints call of the run and its result
    enhanced,    \* enhancedBlueNodes, enhancedBlueEdges
    centerHubs,  \* centerHubs of generate4TeamLayout
    isl,         \* the locals of generateIslands
    layout,      \* the MapLayout returned
    error,       \* the error thrown
    calls,       \* how many calls have returned or thrown
    memo,        \* what every earlier call was given and what came of it
    drawn,       \* the last draw made on a PRNG held by itself, and its result
    turned       \* a point, the centre, and the point after a number of quarter turns

vars == <<pc, config, prng, counters, blueGrid, blueNodes, blueEdges, pairs,
          enhanced, centerHubs, isl, layout, error, calls, memo, drawn, turned>>

None == <<>>
NoDraw == [op |-> "new", min |-> 0, max |-> 0, v |-> 0, n |-> 0]
NoTurn == [p |-> <<>>, center |-> <<>>, q |-> <<>>, k |-> 0]
NoEnhanced == [nodes |-> <<>>, edges |-> <<>>]
NoIsl == IslandState(0, NoCounters, <<>>)

\* the locals of a call that has not started
Fresh ==
    /\ config = None
    /\ prng = 0
    /\ counters = NoCounters
    /\ blueGrid = None
    /\ blueNodes = <<>>
    /\ blueEdges = <<>>
    /\ pairs = <<>>
    /\ enhanced = NoEnhanced
    /\ centerHubs = <<>>
    /\ isl = NoIsl
    /\ layout = None
    /\ error = None

Init ==
    /\ pc = "idle"
    /\ Fresh
    /\ calls = 0
    /\ memo = {}
    /\ drawn = NoDraw
    /\ turned = NoTurn

\* throw new Error(...)
Throw(kind) ==
    /\ pc' = "failed"
    /\ error' = kind

\* a faulty generateLayout, whose seed depends on a counter of the calls made
\* so far: state that survives a call
generateLayoutCounting(c) ==
    /\ pc = "idle"
    /\ calls < MaxCalls
    /\ config' = c
    /\ prng' = PRNGNew(c.seed + calls)
    /\ pc' = IF c.numTeams = 4 THEN "g4_grid" ELSE "g2_width"
    /\ UNCHANGED <<counters, blueGrid, blueNodes, blueEdges, pairs, enhanced,
                   centerHubs, isl, layout, error, calls, memo, drawn, turned>>

\* generateLayout(config): const prng = new PRNG(config.seed), then the
\* dispatch on numTeams
generateLayout(c) ==
    /\ pc = "idle"
    /\ calls < MaxCalls
    /\ config' = c
    /\ prng' = PRNGNew(c.seed)
    /\ pc' = IF c.numTeams = 4 THEN "g4_grid" ELSE "g2_width"
    /\ UNCHANGED <<counters, blueGrid, blueNodes, blueEdges, pairs, enhanced,
                   centerHubs, isl, layout, error, calls, memo, drawn, turned>>

\* a faulty width check, with the threshold of the partition (60) for 80
CheckWidthLax ==
    /\ pc = "g2_width"
    /\ IF config.teamWidth < 60
       THEN Throw("width") /\ UNCHANGED counters
       ELSE pc' = "g2_grid" /\ counters' = NoCounters /\ UNCHANGED error
    /\ UNCHANGED <<config, prng, blueGrid, blueNodes, blueEdges, pairs, enhanced,
                   centerHubs, isl, layout, calls, memo, drawn, turned>>

\* generate2TeamLayout: the width check, then const counters = new Map()
CheckWidth ==
    /\ pc = "g2_width"
    /\ IF config.teamWidth < 80
       THEN Throw("width") /\ UNCHANGED counters
       ELSE pc' = "g2_grid" /\ counters' = NoCounters /\ UNCHANGED error
    /\ UNCHANGED <<config, prng, blueGrid, blueNodes, blueEdges, pairs, enhanced,
                   centerHubs, isl, layout, calls, memo, drawn, turned>>

\* const blueGrid = createGrid(prng, teamWidth, teamHeight, gridMode,
\*                             symmetricalTeamLayout)
CreateGrid2 ==
    /\ pc = "g2_grid"
    /\ \E g \in {createGrid(prng, N(config.teamWidth), N(config.teamHeight),
                            config.gridMode, config.symmetricalTeamLayout)} :
           IF g.ok
           THEN /\ blueGrid' = g.v
                /\ prng' = g.s
                /\ pc' = "g2_place"
                /\ UNCHANGED error
           ELSE /\ Throw("partition")
                /\ prng' = g.s
                /\ UNCHANGED blueGrid
    /\ UNCHANGED <<config, counters, blueNodes, blueEdges, pairs, enhanced,
                   centerHubs, isl, layout, calls, memo, drawn, turned>>

\* const blueNodes = placeNodes(prng, blueGrid, Team.BLUE, config, counters)
PlaceNodes2 ==
    /\ pc = "g2_place"
    /\ \E b \in {placeNodes(Work(prng, counters), blueGrid, BLUE, config)} :
           /\ pairs' = b.pairs
           /\ prng' = b.s
           /\ counters' = b.counters
           /\ IF b.ok
              THEN /\ blueNodes' = b.nodes
                   /\ pc' = "g2_edges"
                   /\ UNCHANGED error
              ELSE /\ Throw("TypeError")
                   /\ UNCHANGED blueNodes
    /\ UNCHANGED <<config, blueGrid, blueEdges, enhanced, centerHubs, isl, layout,
                   calls, memo, drawn, turned>>

\* const blueEdges = createEdges(blueNodes, prng), in either generator
CreateEdges ==
    /\ pc \in {"g2_edges", "g4_edges"}
    /\ \E e \in {createEdges(blueNodes, prng)} :
           IF e.ok
           THEN /\ blueEdges' = e.v
                /\ prng' = e.s
                /\ pc' = IF pc = "g2_edges" THEN "g2_enhance" ELSE "g4_center"
                /\ UNCHANGED error
           ELSE /\ Throw("TypeError")
                /\ UNCHANGED <<blueEdges, prng>>
    /\ UNCHANGED <<config, counters, blueGrid, blueNodes, pairs, enhanced, centerHubs,
                   isl, layout, calls, memo, drawn, turned>>

\* const { nodes: enhancedBlueNodes, edges: enhancedBlueEdges } =
\*     addPathingEnhancements(blueNodes, blueEdges, config, prng, Team.BLUE, counters)
Enhance ==
    /\ pc = "g2_enhance"
    /\ \E e \in {addPathingEnhancements(blueNodes, blueEdges, config, prng, BLUE,
                                        counters)} :
           /\ enhanced' = [nodes |-> e.nodes, edges |-> e.edges]
           /\ prng' = e.s
           /\ counters' = e.counters
    /\ pc' = "g2_islands"
    /\ UNCHANGED <<config, blueGrid, blueNodes, blueEdges, pairs, centerHubs, isl,
                   layout, error, calls, memo, drawn, turned>>

totalWidth == N(config.teamWidth) * 2 + N(config.teamGap)
totalHeight == N(config.teamHeight)

\* generateIslands up to its while loop: the early return, or the strategies
\* pushed and shuffled
IslandsBegin ==
    /\ pc = "g2_islands"
    /\ IF ~config.islandGeneration.enabled \/ config.islandGeneration.maxIslandsPerTeam = 0
       THEN /\ pc' = "g2_symmetry"
            /\ isl' = IslandState(prng, counters, <<>>)
       ELSE \E sh \in {shuffle(prng, availableSpawns(config))} :
                /\ isl' = IslandState(sh.s, counters,
                                      [k \in 1..Len(sh.v) |->
                                          IF k \in sh.holes THEN "undefined" ELSE sh.v[k]])
                /\ pc' = "g2_islands_loop"
    /\ UNCHANGED <<config, prng, counters, blueGrid, blueNodes, blueEdges, pairs,
                   enhanced, centerHubs, layout, error, calls, memo, drawn, turned>>

\* a faulty loop condition, which forgets the budget
LoopConditionNoBudget == Len(isl.shuffledSpawns) > 0

\* while (islandCount < maxIslandsPerTeam && shuffledSpawns.length > 0)
LoopCondition ==
    /\ isl.islandCount < config.islandGeneration.maxIslandsPerTeam
    /\ Len(isl.shuffledSpawns) > 0

\* const spawnFn = shuffledSpawns.pop()!
popSpawn(st) == [st EXCEPT !.shuffledSpawns = SubSeq(@, 1, Len(@) - 1)]

\* if (spawnFn()) islandCount++
countIsland(st) ==
    IF st.ok /\ st.called[Len(st.called)].result
    THEN [st EXCEPT !.islandCount = @ + 1]
    ELSE st

\* one turn of the loop
IslandsLoop ==
    /\ pc = "g2_islands_loop"
    /\ LoopCondition
    /\ \E st \in {countIsland(callSpawn(popSpawn(isl),
                                        isl.shuffledSpawns[Len(isl.shuffledSpawns)],
                                        config, blueGrid, enhanced.nodes,
                                        totalWidth, totalHeight))} :
           IF st.ok
           THEN isl' = st /\ UNCHANGED <<pc, error>>
           ELSE Throw("TypeError") /\ UNCHANGED isl
    /\ UNCHANGED <<config, prng, counters, blueGrid, blueNodes, blueEdges, pairs,
                   enhanced, centerHubs, layout, calls, memo, drawn, turned>>

\* the loop ends: return { nodes: newNodes, edges: newEdges }
IslandsReturn ==
    /\ pc = "g2_islands_loop"
    /\ ~LoopCondition
    /\ prng' = isl.s
    /\ counters' = isl.counters
    /\ pc' = "g2_symmetry"
    /\ UNCHANGED <<config, blueGrid, blueNodes, blueEdges, pairs, enhanced, centerHubs,
                   isl, layout, error, calls, memo, drawn, turned>>

\* finalBlueNodes, finalBlueEdges of generate2TeamLayout
finalBlue ==
    [grid |-> blueGrid, nodes |-> enhanced.nodes \o isl.newNodes,
     edges |-> enhanced.edges \o isl.newEdges]

\* the two teams: applySymmetry and orangeGrid; the BLUE team holds the arrays
\* finalBlueNodes and finalBlueEdges as the call of applySymmetry leaves them
teamsOf(blue) ==
    Then(applySymmetry(blue.nodes, blue.edges, ORANGE, config.symmetryMode,
                       totalWidth, totalHeight), LAMBDA orange :
        (BLUE :> [grid |-> blue.grid, nodes |-> orange.given.nodes,
                  edges |-> orange.given.edges])
        @@ (ORANGE :> [grid |-> symmetryGrid(blue.grid, config.symmetryMode,
                                             totalWidth, totalHeight),
                       nodes |-> orange.nodes, edges |-> orange.edges]))

\* applySymmetry, orangeGrid and the return of generate2TeamLayout
Symmetry2 ==
    /\ pc = "g2_symmetry"
    /\ \E blue \in {finalBlue} :
           layout' = [width |-> totalWidth, height |-> totalHeight,
                      teamGap |-> N(config.teamGap), laneWidth |-> N(config.laneWidth),
                      teams |-> teamsOf(blue)]
    /\ pc' = "done"
    /\ UNCHANGED <<config, prng, counters, blueGrid, blueNodes, blueEdges, pairs,
                   enhanced, centerHubs, isl, error, calls, memo, drawn, turned>>

quadrantSize == N(config.teamWidth)
centerGap == N(config.teamGap)
totalSize == quadrantSize * 2 + centerGap
centerPoint == Pt(totalSize \div 2, totalSize \div 2)

\* a faulty CreateGrid4, which hands the grid mode and the symmetrical team
\* layout of the configuration to createGrid
CreateGrid4WithOptions ==
    /\ pc = "g4_grid"
    /\ \E g \in {createGrid(prng, quadrantSize, quadrantSize, config.gridMode,
                            config.symmetricalTeamLayout)} :
           IF g.ok
           THEN /\ blueGrid' = g.v
                /\ prng' = g.s
                /\ counters' = NoCounters
                /\ pc' = "g4_place"
                /\ UNCHANGED error
           ELSE /\ Throw("partition")
                /\ prng' = g.s
                /\ UNCHANGED <<blueGrid, counters>>
    /\ UNCHANGED <<config, blueNodes, blueEdges, pairs, enhanced, centerHubs, isl,
                   layout, calls, memo, drawn, turned>>

\* generate4TeamLayout: createGrid(prng, quadrantSize, quadrantSize,
\* GridMode.STANDARD, false), then const counters = new Map()
CreateGrid4 ==
    /\ pc = "g4_grid"
    /\ \E g \in {createGrid(prng, quadrantSize, quadrantSize, STANDARD, FALSE)} :
           IF g.ok
           THEN /\ blueGrid' = g.v
                /\ prng' = g.s
                /\ counters' = NoCounters
                /\ pc' = "g4_place"
                /\ UNCHANGED error
           ELSE /\ Throw("partition")
                /\ prng' = g.s
                /\ UNCHANGED <<blueGrid, counters>>
    /\ UNCHANGED <<config, blueNodes, blueEdges, pairs, enhanced, centerHubs, isl,
                   layout, calls, memo, drawn, turned>>

\* the pushes to blueNodes of generate4TeamLayout
PlaceNodes4 ==
    /\ pc = "g4_place"
    /\ \E b \in {place4Nodes(Work(prng, counters), blueGrid, config)} :
           /\ blueNodes' = b.nodes
           /\ pairs' = b.pairs
           /\ prng' = b.s
           /\ counters' = b.counters
    /\ pc' = "g4_edges"
    /\ UNCHANGED <<config, blueGrid, blueEdges, enhanced, centerHubs, isl, layout,
                   error, calls, memo, drawn, turned>>

\* the center hubs and the edge of every FrontLine to its nearest one
CenterHubs4 ==
    /\ pc = "g4_center"
    /\ \E ch \in {placeCenterHubs(prng, counters, centerPoint, centerGap, 0)} :
           /\ centerHubs' = ch.v
           /\ prng' = ch.s
           /\ counters' = ch.counters
           /\ IF findNodes(blueNodes, FRONT_LINE) # <<>> /\ ~CanReduce(ch.v)
              THEN Throw("TypeError") /\ UNCHANGED blueEdges
              ELSE /\ blueEdges' = blueEdges
                                   \o centerEdges(findNodes(blueNodes, FRONT_LINE), ch.v)
                   /\ pc' = "g4_rotate"
                   /\ UNCHANGED error
    /\ UNCHANGED <<config, blueGrid, blueNodes, pairs, enhanced, isl, layout, calls, memo, drawn, turned>>

\* blueTeamLayout of generate4TeamLayout
blueTeamLayout ==
    [nodes |-> blueNodes \o centerHubs, edges |-> blueEdges, grid |-> blueGrid]

\* the three rotateLayout calls and the return
Rotate4 ==
    /\ pc = "g4_rotate"
    /\ \E blue \in {blueTeamLayout} :
           layout' =
               [width |-> totalSize, height |-> totalSize, teamGap |-> centerGap,
                laneWidth |-> N(config.laneWidth),
                teams |-> rotatedTeams(blue, centerPoint)]
    /\ pc' = "done"
    /\ UNCHANGED <<config, prng, counters, blueGrid, blueNodes, blueEdges, pairs,
                   enhanced, centerHubs, isl, error, calls, memo, drawn, turned>>

\* what a call came to: the layout it returned or the error it threw
Outcome == [layout |-> layout, error |-> error]

\* The call is over: the caller holds what it returned or threw, and the
\* call's locals (its PRNG and counter table among them) are gone.
Return ==
    /\ pc \in {"done", "failed"}
    /\ memo' = memo \cup {[config |-> config, outcome |-> Outcome]}
    /\ calls' = calls + 1
    /\ pc' = "idle"
    /\ config' = None
    /\ prng' = 0
    /\ counters' = NoCounters
    /\ blueGrid' = None
    /\ blueNodes' = <<>>
    /\ blueEdges' = <<>>
    /\ pairs' = <<>>
    /\ enhanced' = NoEnhanced
    /\ centerHubs' = <<>>
    /\ isl' = NoIsl
    /\ layout' = None
    /\ error' = None
    /\ UNCHANGED <<drawn, turned>>

Step ==
    \/ CheckWidth
    \/ CreateGrid2
    \/ PlaceNodes2
    \/ CreateEdges
    \/ Enhance
    \/ IslandsBegin
    \/ IslandsLoop
    \/ IslandsReturn
    \/ Symmetry2
    \/ CreateGrid4
    \/ PlaceNodes4
    \/ CenterHubs4
    \/ Rotate4

\* one call of generateLayout, on any configuration
Next ==
    \/ \E c \in Configs : generateLayout(c)
    \/ Step

Spec == Init /\ [][Next]_vars

\* up to MaxCalls calls in a row
NextRuns ==
    \/ \E c \in RunConfigs : generateLayout(c)
    \/ Step
    \/ Return

SpecRuns == Init /\ [][NextRuns]_vars

\* up to MaxCalls 4-team calls in a row, on configurations that differ in
\* the options of the 2-team mode
NextFour ==
    \/ \E c \in FourTeamOptionConfigs : generateLayout(c)
    \/ CreateGrid4
    \/ PlaceNodes4
    \/ CreateEdges
    \/ CenterHubs4
    \/ Rotate4
    \/ Return

SpecFour == Init /\ [][NextFour]_vars

\* ------------------------------------------------------------------------
\* A PRNG held by itself: new PRNG(seed), then next() and nextInt(min, max)
\* ------------------------------------------------------------------------

MaxDraws == 3

\* seeds around the ends of the state's range, and one ordinary seed
PRNGSeeds == {1, 0, -1, 20250101, Modulus - 1, Modulus, -(Modulus - 1), -Modulus}

\* the (min, max) given to nextInt: a single value, ranges from 0 and across
\* 0, and a pair with min > max
IntRanges == {<<0, 0>>, <<0, 5>>, <<-3, 3>>, <<10, 4>>}

InitPRNG ==
    /\ pc = "prng"
    /\ config = None
    /\ prng \in {PRNGNew(seed) : seed \in PRNGSeeds}
    /\ counters = NoCounters
    /\ blueGrid = None
    /\ blueNodes = <<>>
    /\ blueEdges = <<>>
    /\ pairs = <<>>
    /\ enhanced = NoEnhanced
    /\ centerHubs = <<>>
    /\ isl = NoIsl
    /\ layout = None
    /\ error = None
    /\ calls = 0
    /\ memo = {}
    /\ drawn = NoDraw
    /\ turned = NoTurn

\* next(): the value is kept as the numerator of (seed - 1) / 2147483646
DrawNext ==
    /\ pc = "prng"
    /\ drawn.n < MaxDraws
    /\ prng' = nextState(prng)
    /\ drawn' = [op |-> "next", min |-> 0, max |-> 0, v |-> nextValue(prng'),
                 n |-> drawn.n + 1]
    /\ UNCHANGED <<pc, config, counters, blueGrid, blueNodes, blueEdges, pairs,
                   enhanced, centerHubs, isl, layout, error, calls, memo, turned>>

\* nextInt(min, max), on integers
DrawNextInt(min, max) ==
    /\ pc = "prng"
    /\ drawn.n < MaxDraws
    /\ \E r \in {nextInt(prng, N(min), N(max))} :
          /\ prng' = r.s
          /\ drawn' = [op |-> "nextInt", min |-> min, max |-> max,
                       v |-> r.v \div Scale, n |-> drawn.n + 1]
    /\ UNCHANGED <<pc, config, counters, blueGrid, blueNodes, blueEdges, pairs,
                   enhanced, centerHubs, isl, layout, error, calls, memo, turned>>

NextPRNG ==
    \/ DrawNext
    \/ \E r \in IntRanges : DrawNextInt(r[1], r[2])

SpecPRNG == InitPRNG /\ [][NextPRNG]_vars

\* ------------------------------------------------------------------------
\* rotatePoint by itself: a point of the reference quadrant turned by 90
\* degrees about the centre, up to four times
\* ------------------------------------------------------------------------

\* coordinates of nodes, in quarters of a unit: between the padding 10 and
\* the quadrant's far side less the padding
RotateCoords == {40, 58, 113, 151, 200, 234, 320}

\* the halves of totalSize for teamWidth 90 and 120 and teamGap 24 and 9, in
\* quarters of a unit
RotateCenters == {408, 378, 528}

InitRotate ==
    /\ pc = "turn"
    /\ config = None
    /\ prng = 0
    /\ counters = NoCounters
    /\ blueGrid = None
    /\ blueNodes = <<>>
    /\ blueEdges = <<>>
    /\ pairs = <<>>
    /\ enhanced = NoEnhanced
    /\ centerHubs = <<>>
    /\ isl = NoIsl
    /\ layout = None
    /\ error = None
    /\ calls = 0
    /\ memo = {}
    /\ drawn = NoDraw
    /\ \E x \in RotateCoords, y \in RotateCoords, c \in RotateCenters :
          turned = [p |-> Pt(DoubleOf(x, -2), DoubleOf(y, -2)),
                    center |-> Pt(DoubleOf(c, -2), DoubleOf(c, -2)),
                    q |-> Pt(DoubleOf(x, -2), DoubleOf(y, -2)), k |-> 0]

\* one more rotatePoint(q, 90, centerPoint)
Turn ==
    /\ pc = "turn"
    /\ turned.k < 4
    /\ turned' = [turned EXCEPT !.q = rotatePointDouble(@, 90, turned.center),
                                !.k = @ + 1]
    /\ UNCHANGED <<pc, config, prng, counters, blueGrid, blueNodes, blueEdges, pairs,
                   enhanced, centerHubs, isl, layout, error, calls, memo, drawn>>

SpecRotate == InitRotate /\ [][Turn]_vars

\* ------------------------------------------------------------------------
\* pickCuts by itself, in double arithmetic: calls in a row on one generator
\* ------------------------------------------------------------------------

NumCutSeeds == 16
MaxCutCalls == 2

CutSeeds == 1..NumCutSeeds

\* totalSize: below and at minCellSize * (numCuts + 1) for 2 cuts, between
\* that of 2 and of 3 cuts, and above both
CutSizes == {50, 60, 75, 120}

CutCounts == {2, 3}

InitCuts ==
    /\ pc = "cuts"
    /\ config = None
    /\ prng \in {PRNGNew(seed) : seed \in CutSeeds}
    /\ counters = NoCounters
    /\ blueGrid = None
    /\ blueNodes = <<>>
    /\ blueEdges = <<>>
    /\ pairs = <<>>
    /\ enhanced = NoEnhanced
    /\ centerHubs = <<>>
    /\ isl = NoIsl
    /\ layout = None
    /\ error = None
    /\ calls = 0
    /\ memo = {}
    /\ drawn = NoDraw
    /\ turned = NoTurn

\* pickCuts(prng, totalSize, numCuts, minCellWidth); a throw ends the run
PickCuts(total, numCuts) ==
    /\ pc = "cuts"
    /\ drawn.n < MaxCutCalls
    /\ \E r \in {pickCutsDouble(prng, total, numCuts, minCellWidth)} :
          /\ prng' = r.s
          /\ pc' = IF r.ok THEN "cuts" ELSE "failed"
          /\ error' = IF r.ok THEN error ELSE "partition"
          /\ drawn' = [op |-> "pickCuts", total |-> total, numCuts |-> numCuts,
                       minCellSize |-> minCellWidth, ok |-> r.ok, v |-> r.v,
                       n |-> drawn.n + 1]
    /\ UNCHANGED <<config, counters, blueGrid, blueNodes, blueEdges, pairs,
                   enhanced, centerHubs, isl, layout, calls, memo, turned>>

NextCuts == \E total \in CutSizes, numCuts \in CutCounts : PickCuts(total, numCuts)

SpecCuts == InitCuts /\ [][NextCuts]_vars

\* ------------------------------------------------------------------------
\* Properties
\* ------------------------------------------------------------------------

\* the teams of the layout returned, and their nodes and edges
TeamsOf(l) == DOMAIN l.teams
NodesOf(l, t) == l.teams[t].nodes
EdgesOf(l, t) == l.teams[t].edges
NodeIdsOf(l, t) == {NodesOf(l, t)[i].id : i \in 1..Len(NodesOf(l, t))}
CountOf(l, t, type) == Len(findNodes(NodesOf(l, t), type))

\* C1: two calls of generateLayout given the same configuration come to the
\* same outcome (the same MapLayout, or the same error), whatever calls were
\* made before or between them.
Determinism ==
    /\ \A m1, m2 \in memo : m1.config = m2.config => m1.outcome = m2.outcome
    /\ pc \in {"done", "failed"} =>
           \A m \in memo : m.config = config => m.outcome = Outcome

\* a call returns a layout that an earlier call with the same configuration
\* returned, and a call with another configuration has been made as well
DeterminismWitness ==
    /\ pc = "done"
    /\ \E m \in memo : m.config = config /\ m.outcome.layout = layout
    /\ \E m \in memo : m.config # config

\* C2: in every layout returned, for every team, both endpoints of every edge
\* are ids of nodes in that team's node list.
EdgeEndpointsExist ==
    pc = "done" =>
        \A t \in TeamsOf(layout) : \A i \in 1..Len(EdgesOf(layout, t)) :
            /\ EdgesOf(layout, t)[i].from \in NodeIdsOf(layout, t)
            /\ EdgesOf(layout, t)[i].to \in NodeIdsOf(layout, t)

\* a layout is returned whose opposing team has helper nodes of flank routes
\* and island nodes, and an edge that ends at an island
EdgeEndpointsWitness ==
    /\ pc = "done"
    /\ CountOf(layout, ORANGE, HELPER) > 0
    /\ CountOf(layout, ORANGE, ISLAND) > 0
    /\ \E i \in 1..Len(EdgesOf(layout, ORANGE)) :
           EdgesOf(layout, ORANGE)[i].to[2] = NODE_TYPE_ABBREVIATIONS[ISLAND]

\* the places of the node lists: a team and an index into its list
Places(l) == UNION {{<<t, i>> : i \in 1..Len(NodesOf(l, t))} : t \in TeamsOf(l)}
NodeAt(l, place) == NodesOf(l, place[1])[place[2]]

\* C3, as stated: in every layout returned, with the node lists of all teams
\* taken together, no two nodes share an id.
NoSharedId ==
    pc = "done" =>
        \A p1 \in Places(layout) : \A p2 \in Places(layout) :
            p1 # p2 => NodeAt(layout, p1).id # NodeAt(layout, p2).id

\* C3, amended: in every layout returned no two nodes of one team share an
\* id, and two nodes of different teams share an id only in 4-team mode and
\* only when both are one and the same CenterHub node (same id, type,
\* position and team), which every team's list holds.
NoSharedIdButCenterHubs ==
    pc = "done" =>
        \A p1 \in Places(layout) : \A p2 \in Places(layout) :
            (p1 # p2 /\ NodeAt(layout, p1).id = NodeAt(layout, p2).id) =>
                /\ p1[1] # p2[1]
                /\ config.numTeams = 4
                /\ NodeAt(layout, p1).type = CENTER_HUB
                /\ NodeAt(layout, p1) = NodeAt(layout, p2)

\* a 4-team layout is returned in which BLUE's list and ORANGE's list hold a
\* node of the same id
SharedCenterHubWitness ==
    /\ pc = "done"
    /\ config.numTeams = 4
    /\ NodeIdsOf(layout, BLUE) \cap NodeIdsOf(layout, ORANGE) # {}

\* C4, as stated: for every pair placed by placePairedPoints in a zone whose
\* width minus the padding exceeds the constraint's max, the straight-line
\* distance between the objective and the entry lies within [min, max]
\* (compared as squares).
PairDistanceInRange ==
    \A k \in 1..Len(pairs) :
        pairs[k].zone.width - pairs[k].padding > pairs[k].distance.max =>
            /\ pairs[k].distance.min * pairs[k].distance.min
                   <= Hypot2(pairs[k].objective, pairs[k].entry)
            /\ Hypot2(pairs[k].objective, pairs[k].entry)
                   <= pairs[k].distance.max * pairs[k].distance.max

\* the width and the height createGrid was called with
gridWidth == N(config.teamWidth)
gridHeight == IF config.numTeams = 4 THEN N(config.teamWidth) ELSE N(config.teamHeight)

ImagePoint(p) ==
    IF config.symmetryMode = MIRROR
    THEN Pt(totalWidth - p.x, p.y)
    ELSE Pt(totalWidth - p.x, totalHeight - p.y)

ImagePoints(ps) == [k \in 1..Len(ps) |-> ImagePoint(ps[k])]

\* an id with ORANGE for its team part
OrangeId(id) == <<ORANGE>> \o Tail(id)

\* node o of ORANGE is the image of node b of BLUE
IsImageNode(b, o) ==
    /\ o.type = b.type
    /\ o.id = OrangeId(b.id)
    /\ o.pos = ImagePoint(b.pos)

\* edge o of ORANGE is the image of edge b of BLUE
IsImageEdge(b, o) ==
    /\ o.from = OrangeId(b.from)
    /\ o.to = OrangeId(b.to)
    /\ o.nodes = ImagePoints(b.nodes)
    /\ o.type = b.type
    /\ o.isRushRoute = b.isRushRoute

\* C6: in every 2-team layout returned, every BLUE node at (x, y) has an
\* ORANGE node of the same type, with the same id but for the team part, at
\* (totalWidth - x, y) in Mirror mode and at (totalWidth - x, totalHeight - y)
\* in Rotation mode; every ORANGE node is such an image; and every BLUE edge
\* has an ORANGE edge with the endpoint ids remapped, the polyline
\* transformed point by point, and the same type and isRushRoute flag.
OrangeIsImageOfBlue ==
    (pc = "done" /\ config.numTeams # 4) =>
        /\ \A i \in 1..Len(NodesOf(layout, BLUE)) :
               \E j \in 1..Len(NodesOf(layout, ORANGE)) :
                   IsImageNode(NodesOf(layout, BLUE)[i], NodesOf(layout, ORANGE)[j])
        /\ \A j \in 1..Len(NodesOf(layout, ORANGE)) :
               \E i \in 1..Len(NodesOf(layout, BLUE)) :
                   IsImageNode(NodesOf(layout, BLUE)[i], NodesOf(layout, ORANGE)[j])
        /\ Len(NodesOf(layout, ORANGE)) = Len(NodesOf(layout, BLUE))
        /\ \A i \in 1..Len(EdgesOf(layout, BLUE)) :
               \E j \in 1..Len(EdgesOf(layout, ORANGE)) :
                   IsImageEdge(EdgesOf(layout, BLUE)[i], EdgesOf(layout, ORANGE)[j])

\* a 2-team layout is returned in Rotation mode whose BLUE team has helper
\* nodes, a rush-route edge and a node off the horizontal center line
OrangeIsImageWitness ==
    /\ pc = "done"
    /\ config.numTeams # 4
    /\ config.symmetryMode = ROTATION
    /\ CountOf(layout, BLUE, HELPER) > 0
    /\ \E i \in 1..Len(EdgesOf(layout, BLUE)) : EdgesOf(layout, BLUE)[i].isRushRoute
    /\ \E i \in 1..Len(NodesOf(layout, BLUE)) :
           2 * NodesOf(layout, BLUE)[i].pos.y # totalHeight

\* a 2-team configuration with symmetricalTeamLayout off and flank routes,
\* rush route and islands disabled
IsPlainAsymmetric(c) ==
    /\ c.numTeams # 4
    /\ ~c.symmetricalTeamLayout
    /\ ~c.pathingEnhancements.enableWoolFlankRoutes
    /\ ~c.pathingEnhancements.enableSpawnWoolRushRoute
    /\ ~c.islandGeneration.enabled

NarrowNeverPlaces ==
    (config # None /\ config.teamWidth < 80) =>
        /\ blueNodes = <<>>
        /\ pc # "done"
        /\ layout = None

\* C8, amended: a 2-team call whose teamWidth is below 80 fails with the
\* width error before any random number is drawn and any node placed; a
\* 4-team call whose teamWidth is below 60 fails with the partition error
\* before any random number is drawn and any node placed; neither returns a
\* layout. A 4-team call whose teamWidth is at least 60 does not fail,
\* whether or not its teamWidth is below 80.
NarrowRejected ==
    config # None =>
        /\ (config.numTeams # 4 /\ config.teamWidth < 80) =>
               /\ pc \in {"g2_width", "failed"}
               /\ pc = "failed" => error = "width"
               /\ prng = PRNGNew(config.seed)
               /\ blueGrid = None /\ blueNodes = <<>> /\ layout = None
        /\ (config.numTeams = 4 /\ N(config.teamWidth) < 3 * N(minCellWidth)) =>
               /\ pc \in {"g4_grid", "failed"}
               /\ pc = "failed" => error = "partition"
               /\ prng = PRNGNew(config.seed)
               /\ blueGrid = None /\ blueNodes = <<>> /\ layout = None
        /\ (config.numTeams = 4 /\ N(config.teamWidth) >= 3 * N(minCellWidth)) =>
               pc # "failed"

\* a 2-team call with a teamWidth from 60 to 79, which the partition would
\* fit, has failed with the width error
NarrowRejectedWitness ==
    /\ pc = "failed"
    /\ error = "width"
    /\ config.numTeams # 4
    /\ config.teamWidth >= 60
    /\ config.teamWidth < 80

\* the territory is large enough for the 3x3 partition
PartitionFits(c) ==
    /\ N(c.teamWidth) >= 3 * N(minCellWidth)
    /\ c.numTeams # 4 => N(c.teamHeight) >= 3 * N(minCellHeight)

\* team t of the layout has a 3x3 grid, the nodes every territory has, and
\* edges
CompleteTeam(l, t) ==
    /\ Len(l.teams[t].grid) = 3
    /\ \A i \in 1..3 : Len(l.teams[t].grid[i]) = 3
    /\ CountOf(l, t, SPAWN) = 1
    /\ CountOf(l, t, SPAWN_ENTRY) = 1
    /\ CountOf(l, t, WOOL) >= 1
    /\ CountOf(l, t, WOOL_ENTRY) = CountOf(l, t, WOOL)
    /\ CountOf(l, t, HUB) >= 3
    /\ CountOf(l, t, FRONT_LINE) >= 1
    /\ CountOf(l, t, FRONT_LINE_ENTRY) = CountOf(l, t, FRONT_LINE)
    /\ Len(EdgesOf(l, t)) > 0

\* C9: a call fails only with the width error or the partition error; a call
\* with teamWidth >= 80 and a territory large enough for the 3x3 partition
\* never fails, takes a next step as long as it has not returned, and
\* returns a layout with the configured number of teams, each complete;
\* whatever the seed, the distance constraints, the toggles and the island
\* settings.
OnlyRecognizedFailures ==
    /\ pc = "failed" => error \in {"width", "partition"}
    /\ (config # None /\ config.teamWidth >= 80 /\ PartitionFits(config)) =>
           /\ pc # "failed"
           /\ pc # "done" => ENABLED Step
           /\ pc = "done" =>
                  /\ TeamsOf(layout) = IF config.numTeams = 4
                                       THEN {BLUE, ORANGE, GREEN, YELLOW}
                                       ELSE {BLUE, ORANGE}
                  /\ \A t \in TeamsOf(layout) : CompleteTeam(layout, t)

\* the edges of team t that a chain of islands hangs on
ChainEdges(l, t) ==
    LET IsChain(e) == e.type = "bridgeable" /\ e.to[2] = NODE_TYPE_ABBREVIATIONS[ISLAND]
    IN  SelectSeq(EdgesOf(l, t), IsChain)

\* the edges of team t that touch an island
IslandEdges(l, t) ==
    LET Touches(e) == \/ e.from[2] = NODE_TYPE_ABBREVIATIONS[ISLAND]
                      \/ e.to[2] = NODE_TYPE_ABBREVIATIONS[ISLAND]
    IN  SelectSeq(EdgesOf(l, t), Touches)

\* the strategies called so far that returned true
Created == SelectSeq(isl.called, LAMBDA call : call.result)

\* C10: in generateIslands no strategy is called that is not enabled and none
\* is called twice; every turn of the loop takes one strategy from the ones
\* left, so that the loop ends after at most as many turns as strategies are
\* enabled, and while it has not ended a step is possible; the number of
\* chains created never exceeds maxIslandsPerTeam, in the loop and in every
\* team of the layout returned; and when maxIslandsPerTeam = 0 or
\* islandGeneration.enabled is false, no team of the layout returned has an
\* Island node or an edge that touches one.
IslandBudget ==
    config # None =>
        /\ \A i \in 1..Len(isl.called) :
               /\ \E k \in 1..Len(availableSpawns(config)) :
                      availableSpawns(config)[k] = isl.called[i].name
               /\ \A j \in 1..Len(isl.called) :
                      i # j => isl.called[i].name # isl.called[j].name
        /\ pc = "g2_islands_loop" =>
               /\ Len(isl.called) + Len(isl.shuffledSpawns)
                      = Len(availableSpawns(config))
               /\ ENABLED (IslandsLoop \/ IslandsReturn)
        /\ isl.islandCount = Len(Created)
        /\ isl.islandCount <= config.islandGeneration.maxIslandsPerTeam
        /\ pc = "done" =>
               \A t \in TeamsOf(layout) :
                   /\ Len(ChainEdges(layout, t))
                          <= config.islandGeneration.maxIslandsPerTeam
                   /\ (\/ ~config.islandGeneration.enabled
                       \/ config.islandGeneration.maxIslandsPerTeam = 0) =>
                          /\ CountOf(layout, t, ISLAND) = 0
                          /\ IslandEdges(layout, t) = <<>>

\* a layout is returned whose island budget was used up while a strategy was
\* still left to call
IslandBudgetWitness ==
    /\ pc = "done"
    /\ config.islandGeneration.enabled
    /\ config.islandGeneration.maxIslandsPerTeam > 0
    /\ isl.islandCount = config.islandGeneration.maxIslandsPerTeam
    /\ Len(isl.shuffledSpawns) > 0
    /\ Len(ChainEdges(layout, ORANGE)) = config.islandGeneration.maxIslandsPerTeam


\* C11: whatever the integer seed and however many draws were made, the
\* PRNG's state is in [1, 2^31 - 2], a next() result is in [0, 1), a
\* nextInt(min, max) result with min <= max is in [min, max], and nextInt
\* returns min when min > max.
DrawsInRange ==
    pc = "prng" =>
        /\ 1 <= prng /\ prng <= Modulus - 1
        /\ drawn.op = "next" => 0 <= drawn.v /\ drawn.v < Modulus - 1
        /\ drawn.op = "nextInt" =>
              IF drawn.min <= drawn.max
              THEN drawn.min <= drawn.v /\ drawn.v <= drawn.max
              ELSE drawn.v = drawn.min

\* the center hubs of a team's node list, and the edges of a team that lead
\* from the node p to one of them
CenterHubsOf(l, t) == findNodes(NodesOf(l, t), CENTER_HUB)
CenterEdgesFrom(l, t, p) ==
    LET Leads(e) == e.from = p.id /\ e.to \in IdsOf(CenterHubsOf(l, t))
    IN  SelectSeq(EdgesOf(l, t), Leads)

\* the target of the edge e is a center hub of the team t than which none
\* is nearer to the node p
LeadsToNearest(l, t, p, e) ==
    \A i, k \in 1..Len(CenterHubsOf(l, t)) :
        CenterHubsOf(l, t)[i].id = e.to =>
            Hypot2(CenterHubsOf(l, t)[i].pos, p.pos)
                <= Hypot2(CenterHubsOf(l, t)[k].pos, p.pos)

\* C12: in a 4-team layout the four center hubs are the same nodes in every
\* team's list, and in every team, the reference team and each rotated copy,
\* every FrontLine has exactly one edge to a center hub, which is the center
\* hub nearest to that team's FrontLine position.
FrontLineToNearestCenterHub ==
    (pc = "done" /\ config.numTeams = 4) =>
        \A t \in TeamsOf(layout) :
            /\ Len(CenterHubsOf(layout, t)) = 4
            /\ CenterHubsOf(layout, t) = CenterHubsOf(layout, BLUE)
            /\ \A i \in 1..Len(NodesOf(layout, t)) :
                  NodesOf(layout, t)[i].type = FRONT_LINE =>
                      /\ Len(CenterEdgesFrom(layout, t, NodesOf(layout, t)[i])) = 1
                      /\ LeadsToNearest(layout, t, NodesOf(layout, t)[i],
                             CenterEdgesFrom(layout, t, NodesOf(layout, t)[i])[1])

\* the same, with the nearest center hub asked of the reference team only
FrontLineToCenterHub ==
    (pc = "done" /\ config.numTeams = 4) =>
        \A t \in TeamsOf(layout) :
            /\ Len(CenterHubsOf(layout, t)) = 4
            /\ CenterHubsOf(layout, t) = CenterHubsOf(layout, BLUE)
            /\ \A i \in 1..Len(NodesOf(layout, t)) :
                  NodesOf(layout, t)[i].type = FRONT_LINE =>
                      /\ Len(CenterEdgesFrom(layout, t, NodesOf(layout, t)[i])) = 1
                      /\ t = BLUE =>
                             LeadsToNearest(layout, t, NodesOf(layout, t)[i],
                                 CenterEdgesFrom(layout, t, NodesOf(layout, t)[i])[1])

\* the position of the copy that k quarter turns should meet: the GREEN copy
\* rotatePoint(p, 180, centerPoint), the YELLOW copy rotatePoint(p, 270,
\* centerPoint), and the point itself after the fourth
CopyAfter(k) ==
    CASE k = 2 -> rotatePointDouble(turned.p, 180, turned.center)
      [] k = 3 -> rotatePointDouble(turned.p, 270, turned.center)
      [] k = 4 -> turned.p

\* 2^-40, about 9.1e-13
Tolerance == DoubleOf(1, -40)

NearBy(a, b) ==
    /\ DoubleAbsLess(DoubleSub(a.x, b.x), Tolerance)
    /\ DoubleAbsLess(DoubleSub(a.y, b.y), Tolerance)

\* C13 as stated: four quarter turns about the centre return a point to its
\* position, and two and three quarter turns give exactly the position of its
\* 180-degree (GREEN) and 270-degree (YELLOW) copy.
QuarterTurnsExact ==
    (pc = "turn" /\ turned.k \in 2..4) => turned.q = CopyAfter(turned.k)

\* C13: four quarter turns about the centre return a point to its position,
\* and two and three quarter turns give the position of its 180-degree
\* (GREEN) and 270-degree (YELLOW) copy, each coordinate to within
\* floating-point tolerance (2^-40).
QuarterTurnsWithinTolerance ==
    (pc = "turn" /\ turned.k \in 2..4) => NearBy(turned.q, CopyAfter(turned.k))

\* two quarter turns have ended beside the GREEN copy's position, not on it
QuarterTurnsWitness ==
    /\ pc = "turn"
    /\ turned.k = 2
    /\ turned.q # CopyAfter(2)
    /\ NearBy(turned.q, CopyAfter(2))

EntryEdgesTo(l, t, p) ==
    LET Enters(e) == e.to = p.id /\ e.from \in IdsOf(findNodes(NodesOf(l, t), FRONT_LINE_ENTRY))
    IN  SelectSeq(EdgesOf(l, t), Enters)

\* the FrontLine placed together with the FrontLineEntry p: the one pushed
\* right after it, which has its sequence number
PairedFrontLine(p) == <<p.id[1], NODE_TYPE_ABBREVIATIONS[FRONT_LINE], p.id[3]>>

\* C15: in every team of a returned layout, every FrontLine has exactly one
\* edge from a FrontLineEntry, and that edge comes from the FrontLineEntry
\* placed together with it in its zone.
FrontLineEntryToPairedFrontLine ==
    pc = "done" =>
        \A t \in TeamsOf(layout) : \A i \in 1..Len(NodesOf(layout, t)) :
            NodesOf(layout, t)[i].type = FRONT_LINE =>
                /\ Len(EntryEdgesTo(layout, t, NodesOf(layout, t)[i])) = 1
                /\ \A k \in 1..Len(NodesOf(layout, t)) :
                      NodesOf(layout, t)[k].id
                          = EntryEdgesTo(layout, t, NodesOf(layout, t)[i])[1].from
                      => PairedFrontLine(NodesOf(layout, t)[k]) = NodesOf(layout, t)[i].id

\* C16: in the reference team of a 2-team layout every FrontLine lies nearer
\* the centre gap than the FrontLineEntry placed with it: its x is strictly
\* greater.
FrontLineBeyondEntry ==
    (pc = "done" /\ config.numTeams = 2) =>
        \A i, k \in 1..Len(NodesOf(layout, BLUE)) :
            (/\ NodesOf(layout, BLUE)[i].type = FRONT_LINE_ENTRY
             /\ NodesOf(layout, BLUE)[k].id = PairedFrontLine(NodesOf(layout, BLUE)[i]))
            => NodesOf(layout, BLUE)[k].pos.x > NodesOf(layout, BLUE)[i].pos.x

\* the position of the node with this id in nodes: its creation order
CreatedAt(nodes, id) == CHOOSE i \in 1..Len(nodes) : nodes[i].id = id

\* chosen is nearest to target among the nodes of this type, and no node of
\* the type created before it is as near
FirstCreatedNearest(nodes, target, chosen, type) ==
    \A k \in 1..Len(nodes) :
        nodes[k].type = type =>
            \/ Hypot2(nodes[k].pos, target.pos) > Hypot2(chosen.pos, target.pos)
            \/ /\ Hypot2(nodes[k].pos, target.pos) = Hypot2(chosen.pos, target.pos)
               /\ CreatedAt(nodes, chosen.id) <= k

\* the nearest-neighbour selection an edge of createEdges records, if any,
\* picked the first created of the nearest candidates
EdgeToFirstCreated(nodes, e) ==
    Then(nodeById(nodes, e.from), LAMBDA from :
    Then(nodeById(nodes, e.to), LAMBDA to :
        /\ (from.type = HUB /\ to.type \in {WOOL_ENTRY, FRONT_LINE_ENTRY})
               => FirstCreatedNearest(nodes, to, from, HUB)
        /\ (from.type = WOOL_ENTRY /\ to.type = WOOL)
               => FirstCreatedNearest(nodes, to, from, WOOL_ENTRY)
        /\ (from.type = FRONT_LINE_ENTRY /\ to.type = FRONT_LINE)
               => FirstCreatedNearest(nodes, from, to, FRONT_LINE)))

\* C17: in every nearest-neighbour selection of createEdges (a Wool's
\* WoolEntry, an entry's Hub, a FrontLineEntry's Hub and FrontLine), in
\* 2-team and in 4-team mode, of two candidates at exactly equal distance
\* the one created first is selected.
NearestTieToFirstCreated ==
    pc \in {"g2_enhance", "g4_center"} =>
        \A i \in 1..Len(blueEdges) : EdgeToFirstCreated(blueNodes, blueEdges[i])

\* the point p lies inside the zone, borders included
InsideZone(p, zone) ==
    /\ zone.x <= p.x /\ p.x <= zone.x + zone.width
    /\ zone.y <= p.y /\ p.y <= zone.y + zone.height

\* the zone of the bottom row in which the symmetrical placeNodes means the
\* reflected copy of a node of this type to land: rear, middle or front
bottomZoneOf(grid, type) ==
    IF type \in {WOOL, WOOL_ENTRY} THEN grid[3][1]
    ELSE IF type = HUB THEN grid[3][2]
    ELSE grid[3][3]

\* the reflected copies of the symmetrical placeNodes: the second Wool,
\* WoolEntry, FrontLineEntry and FrontLine and the third Hub
IsReflectedCopy(p) ==
    \/ p.type \in {WOOL, WOOL_ENTRY, FRONT_LINE_ENTRY, FRONT_LINE} /\ p.id[3] = 2
    \/ p.type = HUB /\ p.id[3] = 3

\* C18: with symmetricalTeamLayout on, the reflected copies that placeNodes
\* returns lie inside the bottom row (Wool and WoolEntry in the rear zone,
\* the Hub in the middle zone, FrontLineEntry and FrontLine in the front
\* zone) and every node's y lies within [0, teamHeight].
ReflectedCopiesInBottomRow ==
    (pc = "g2_edges" /\ config.symmetricalTeamLayout) =>
        \A i \in 1..Len(blueNodes) :
            /\ IsReflectedCopy(blueNodes[i])
                   => InsideZone(blueNodes[i].pos, bottomZoneOf(blueGrid, blueNodes[i].type))
            /\ 0 <= blueNodes[i].pos.y
            /\ blueNodes[i].pos.y <= N(config.teamHeight)

\* the polyline of the edge is the segment from the position of its from
\* node to the position of its to node in this node list
JoinsItsEndpoints(nodes, e) ==
    e.nodes = <<nodeById(nodes, e.from).pos, nodeById(nodes, e.to).pos>>

\* C19: in every team of every returned layout, 2-team and 4-team, every
\* edge's polyline has exactly two points, the position of the edge's from
\* node and the position of its to node as they are in that team's node list.
EdgePolylinesJoinEndpoints ==
    pc = "done" =>
        \A t \in TeamsOf(layout) : \A i \in 1..Len(EdgesOf(layout, t)) :
            JoinsItsEndpoints(NodesOf(layout, t), EdgesOf(layout, t)[i])

\* the same of the 2-team layouts only, where it holds
EdgePolylinesJoinEndpoints2 ==
    (pc = "done" /\ config.numTeams = 2) =>
        \A t \in TeamsOf(layout) : \A i \in 1..Len(EdgesOf(layout, t)) :
            JoinsItsEndpoints(NodesOf(layout, t), EdgesOf(layout, t)[i])

\* the edges of this list from a node of one type to a node of another,
\* in the node list nodes
IsEdgeBetween(nodes, e, fromType, toType) ==
    /\ nodeById(nodes, e.from).type = fromType
    /\ nodeById(nodes, e.to).type = toType

\* the WoolEntry we has an incoming edge from a Hub and an outgoing edge to
\* a Wool among edges
HasHubAndWoolEdge(nodes, edges, we) ==
    /\ \E i \in 1..Len(edges) : edges[i].to = we.id /\ IsEdgeBetween(nodes, edges[i], HUB, WOOL_ENTRY)
    /\ \E i \in 1..Len(edges) : edges[i].from = we.id /\ IsEdgeBetween(nodes, edges[i], WOOL_ENTRY, WOOL)

\* an edge from the node a to the node b is among edges
Linked(edges, a, b) == \E i \in 1..Len(edges) : edges[i].from = a.id /\ edges[i].to = b.id

\* Math.max(padding, Math.min(y, teamHeight - padding)) with padding 10
ClampY(y, teamHeight) == Max2(N(10), Min2(y, teamHeight - N(10)))

\* the flank route of the WoolEntry we is in after: no direct edge between we
\* and a Hub or a Wool, and three added Helpers H1, H2, H3 with the six edges
\* Hub -> H1 -> we -> H2 -> Wool and H1 -> H3 -> H2, H3 beside we
Diverted(before, after, we, teamHeight) ==
    /\ \A i \in 1..Len(after.edges) :
          /\ ~(after.edges[i].to = we.id
               /\ nodeById(after.nodes, after.edges[i].from).type = HUB)
          /\ ~(after.edges[i].from = we.id
               /\ nodeById(after.nodes, after.edges[i].to).type = WOOL)
    /\ \E h1, h2, h3 \in (Len(before) + 1)..Len(after.nodes) :
          /\ h1 # h2 /\ h2 # h3 /\ h1 # h3
          /\ \A h \in {h1, h2, h3} : after.nodes[h].type = HELPER
          /\ \E k \in 1..Len(before) :
                before[k].type = HUB /\ Linked(after.edges, before[k], after.nodes[h1])
          /\ Linked(after.edges, after.nodes[h1], we)
          /\ Linked(after.edges, we, after.nodes[h2])
          /\ \E k \in 1..Len(before) :
                before[k].type = WOOL /\ Linked(after.edges, after.nodes[h2], before[k])
          /\ Linked(after.edges, after.nodes[h1], after.nodes[h3])
          /\ Linked(after.edges, after.nodes[h3], after.nodes[h2])
          /\ after.nodes[h3].pos.x = we.pos.x
          /\ after.nodes[h3].pos.y \in {ClampY(we.pos.y + N(25), teamHeight),
                                       ClampY(we.pos.y - N(25), teamHeight)}

\* the WoolEntries of nodes with both edges among edges
DivertedEntries(nodes, edges) ==
    {i \in 1..Len(nodes) : nodes[i].type = WOOL_ENTRY /\ HasHubAndWoolEdge(nodes, edges, nodes[i])}

\* the rest is unchanged: the nodes of before come first in after, followed
\* by three Helpers for each diverted WoolEntry; every other edge of before
\* is still in after, and after has no edge besides those of before, the
\* edges at a Helper and the rush route
RestUnchanged(before, edges, after) ==
    /\ SubSeq(after.nodes, 1, Len(before)) = before
    /\ Len(after.nodes) = Len(before) + 3 * Cardinality(DivertedEntries(before, edges))
    /\ \A i \in 1..Len(edges) :
          (\/ \E k \in DivertedEntries(before, edges) :
                 \/ edges[i].to = before[k].id /\ IsEdgeBetween(before, edges[i], HUB, WOOL_ENTRY)
                 \/ edges[i].from = before[k].id /\ IsEdgeBetween(before, edges[i], WOOL_ENTRY, WOOL)
           \/ \E j \in 1..Len(after.edges) : after.edges[j] = edges[i])
    /\ \A j \in 1..Len(after.edges) :
          \/ \E i \in 1..Len(edges) : after.edges[j] = edges[i]
          \/ after.edges[j].isRushRoute
          \/ nodeById(after.nodes, after.edges[j].from).type = HELPER
          \/ nodeById(after.nodes, after.edges[j].to).type = HELPER

\* C20: with enableWoolFlankRoutes on, addPathingEnhancements replaces the
\* direct edges of every WoolEntry that has an incoming Hub edge and an
\* outgoing Wool edge: afterwards no direct Hub -> WoolEntry and no direct
\* WoolEntry -> Wool edge of it remains, three Helpers were added for it
\* with the edges Hub -> H1, H1 -> WE, WE -> H2, H2 -> Wool, H1 -> H3 and
\* H3 -> H2, H3 has the WoolEntry's x and y = clamp(WE.y + 25 or - 25, 10,
\* teamHeight - 10), and all other nodes and edges are unchanged.
FlankRoutesReplaceDirectEdges ==
    [][(pc = "g2_enhance" /\ config.pathingEnhancements.enableWoolFlankRoutes) =>
          /\ \A k \in DivertedEntries(blueNodes, blueEdges) :
                Diverted(blueNodes, enhanced', blueNodes[k], N(config.teamHeight))
          /\ RestUnchanged(blueNodes, blueEdges, enhanced')]_vars

\* the positions in edges of the edges flagged isRushRoute
RushEdges(edges) == {i \in 1..Len(edges) : edges[i].isRushRoute}

\* the node h is the third Helper of a flank route of the WoolEntry w: two
\* Helpers h1 -> w -> h2 with h1 -> h -> h2
IsFlankHelperOf(nodes, edges, h, w) ==
    /\ h.type = HELPER
    /\ \E i, k \in 1..Len(nodes) :
          /\ nodes[i].type = HELPER /\ nodes[k].type = HELPER
          /\ Linked(edges, nodes[i], w) /\ Linked(edges, w, nodes[k])
          /\ Linked(edges, nodes[i], h) /\ Linked(edges, h, nodes[k])

\* y lies strictly between a and b
StrictlyBetween(a, y, b) == (a < y /\ y < b) \/ (b < y /\ y < a)

\* the edge e is the rush route of the team: from the SpawnEntry to a
\* WoolEntry nearest to it, or to that entry's flank helper when there is one
\* with its y strictly between theirs
IsRushRouteOf(nodes, edges, e) ==
    \E s, w \in 1..Len(nodes) :
        /\ nodes[s].type = SPAWN_ENTRY /\ nodes[w].type = WOOL_ENTRY
        /\ e.from = nodes[s].id
        /\ \A k \in 1..Len(nodes) :
              nodes[k].type = WOOL_ENTRY
                  => Hypot2(nodes[w].pos, nodes[s].pos) <= Hypot2(nodes[k].pos, nodes[s].pos)
        /\ IF \E h \in 1..Len(nodes) :
                  /\ IsFlankHelperOf(nodes, edges, nodes[h], nodes[w])
                  /\ StrictlyBetween(nodes[s].pos.y, nodes[h].pos.y, nodes[w].pos.y)
           THEN \E h \in 1..Len(nodes) :
                  /\ IsFlankHelperOf(nodes, edges, nodes[h], nodes[w])
                  /\ StrictlyBetween(nodes[s].pos.y, nodes[h].pos.y, nodes[w].pos.y)
                  /\ e.to = nodes[h].id
           ELSE e.to = nodes[w].id

\* C21: with enableSpawnWoolRushRoute on, each team of a 2-team layout has
\* exactly one edge flagged isRushRoute, from the SpawnEntry to the WoolEntry
\* nearest to it, or to that entry's third flank Helper exactly when flank
\* routes inserted one whose y lies strictly between the SpawnEntry's and
\* the WoolEntry's; with the option off no edge of the layout is flagged.
OneRushRoute ==
    pc = "done" =>
        \A t \in TeamsOf(layout) :
            IF config.numTeams = 2 /\ config.pathingEnhancements.enableSpawnWoolRushRoute
            THEN /\ Cardinality(RushEdges(EdgesOf(layout, t))) = 1
                 /\ \A i \in RushEdges(EdgesOf(layout, t)) :
                       IsRushRouteOf(NodesOf(layout, t), EdgesOf(layout, t),
                                     EdgesOf(layout, t)[i])
            ELSE config.pathingEnhancements.enableSpawnWoolRushRoute
                 \/ RushEdges(EdgesOf(layout, t)) = {}

\* a 2-team layout whose rush route ends at a flank Helper
RushToHelperWitness ==
    /\ pc = "done" /\ config.numTeams = 2
    /\ config.pathingEnhancements.enableSpawnWoolRushRoute
    /\ \E i \in RushEdges(EdgesOf(layout, BLUE)) :
          nodeById(NodesOf(layout, BLUE), EdgesOf(layout, BLUE)[i].to).type = HELPER

\* the positions in nodes of the nodes of a type
IndicesOf(nodes, type) == {i \in 1..Len(nodes) : nodes[i].type = type}

\* the orders of the hubs of nodes by ascending y, the y of the hub at
\* position i being ys[i].pos.y: ys is the node list whose coordinates order
\* the hubs
HubOrders(nodes, ys) ==
    {o \in [1..Cardinality(IndicesOf(nodes, HUB)) -> IndicesOf(nodes, HUB)] :
        /\ \A i, k \in DOMAIN o : i # k => o[i] # o[k]
        /\ \A i, k \in DOMAIN o : i < k => ys[o[i]].pos.y <= ys[o[k]].pos.y}

\* the positions in edges of the edges between the SpawnEntry and a Hub
SpawnHubEdges(nodes, edges) ==
    {i \in 1..Len(edges) :
        \/ IsEdgeBetween(nodes, edges[i], SPAWN_ENTRY, HUB)
        \/ IsEdgeBetween(nodes, edges[i], HUB, SPAWN_ENTRY)}

\* the positions in edges of the edges between two Hubs
HubHubEdges(nodes, edges) ==
    {i \in 1..Len(edges) : IsEdgeBetween(nodes, edges[i], HUB, HUB)}

\* the main street of a team: one edge between SpawnEntry and Hubs, to the
\* hub at index floor(n / 2) of an order o of the n hubs, and n - 1 edges
\* between Hubs, one for each pair adjacent in o
MainStreet(nodes, edges, o) ==
    /\ Cardinality(SpawnHubEdges(nodes, edges)) = 1
    /\ \A i \in SpawnHubEdges(nodes, edges) :
          edges[i].to = nodes[o[(Len(o) \div 2) + 1]].id
    /\ Cardinality(HubHubEdges(nodes, edges)) = Len(o) - 1
    /\ \A k \in 1..(Len(o) - 1) :
          \/ Linked(edges, nodes[o[k]], nodes[o[k + 1]])
          \/ Linked(edges, nodes[o[k + 1]], nodes[o[k]])

HubToFrontEntry(nodes, edges) ==
    {i \in 1..Len(edges) : IsEdgeBetween(nodes, edges[i], HUB, FRONT_LINE_ENTRY)}

\* the positions in edges of the edges of a type
EdgesOfType(edges, type) == {i \in 1..Len(edges) : edges[i].type = type}

\* C23: after createEdges, with k the number of Hub -> FrontLineEntry edges,
\* at least min(1, k) and at most min(2, k) edges are bridgeable, every
\* bridgeable edge is a Hub -> FrontLineEntry edge, and every other edge
\* is walkable.
TacticalGapCount ==
    pc \in {"g2_enhance", "g4_center"} =>
        /\ Cardinality(EdgesOfType(blueEdges, "bridgeable"))
               >= Min2(1, Cardinality(HubToFrontEntry(blueNodes, blueEdges)))
        /\ Cardinality(EdgesOfType(blueEdges, "bridgeable"))
               <= Min2(2, Cardinality(HubToFrontEntry(blueNodes, blueEdges)))
        /\ EdgesOfType(blueEdges, "bridgeable") \subseteq HubToFrontEntry(blueNodes, blueEdges)
        /\ \A i \in 1..Len(blueEdges) : blueEdges[i].type \in {"bridgeable", "walkable"}

\* the call of pickCuts made last
CutsCalled == pc \in {"cuts", "failed"} /\ drawn.op = "pickCuts"

\* C24: pickCuts(total, numCuts, minSize) throws exactly when
\* total < minSize * (numCuts + 1); otherwise it returns numCuts strictly
\* increasing cuts inside (0, total), and each of the numCuts + 1 segments
\* they delimit (the widths and heights createGrid gives its zones) is at
\* least minSize long.
SegmentsAtLeastMinimum ==
    CutsCalled =>
        /\ ~drawn.ok <=> drawn.total < drawn.minCellSize * (drawn.numCuts + 1)
        /\ drawn.ok =>
              /\ Len(drawn.v) = drawn.numCuts
              /\ DoubleLess(DoubleZero, drawn.v[1])
              /\ DoubleLess(drawn.v[Len(drawn.v)], DoubleOf(drawn.total, 0))
              /\ \A i \in 2..Len(drawn.v) : DoubleLess(drawn.v[i - 1], drawn.v[i])
              /\ \A i \in 1..(drawn.numCuts + 1) :
                    ~DoubleLess(segmentsDouble(drawn.v, drawn.total)[i],
                                DoubleOf(drawn.minCellSize, 0))

\* createGrid was called with symmetricalTeamLayout = true and returned
SymmetricalGridMade ==
    /\ config # None
    /\ config.numTeams = 2
    /\ config.symmetricalTeamLayout
    /\ blueGrid # None

\* zone b is zone a reflected about the horizontal mid-line of a territory
\* of the given height
IsMirroredZone(a, b, height) ==
    /\ b.x = a.x
    /\ b.width = a.width
    /\ b.height = a.height
    /\ b.y = height - a.y - a.height

\* C25: a grid created with symmetricalTeamLayout = true, in either grid
\* mode, has a top row as high as its bottom row, rows at least
\* minCellHeight high, and the same two column cuts in all three rows (only
\* the top row height and one pair of cuts were drawn from the generator),
\* and is its own reflection about the horizontal mid-line.
SymmetricalGridMirrored ==
    SymmetricalGridMade =>
        /\ \A j \in 0..2 : Cell(blueGrid, 0, j).height = Cell(blueGrid, 2, j).height
        /\ \A i, j \in 0..2 : Cell(blueGrid, i, j).height >= N(minCellHeight)
        /\ \A i, j \in 0..2 :
              /\ Cell(blueGrid, i, j).x = Cell(blueGrid, 0, j).x
              /\ Cell(blueGrid, i, j).width = Cell(blueGrid, 0, j).width
        /\ \A i, j \in 0..2 :
              IsMirroredZone(Cell(blueGrid, i, j), Cell(blueGrid, 2 - i, j),
                             N(config.teamHeight))
        /\ pc = "g2_place" =>
              prng = nextState(nextState(nextState(PRNGNew(config.seed))))

\* the island chains made so far by the generateIslands call: the entries of
\* the record of strategies that returned true
ChainsMade == {k \in 1..Len(isl.called) : isl.called[k].result}

\* the nodes of the chain c, in the order of the chain: newNodes from the
\* chain's first node on
ChainNodes(c) ==
    LET OfChain(n) == n.id[3] >= c.first[3] /\ n.id[3] < c.first[3] + c.size
    IN  SelectSeq(isl.newNodes, OfChain)

\* the edges pushed to newEdges that touch a node of the chain c
ChainEdgesOf(c) ==
    LET Touches(e) == e.from \in IdsOf(ChainNodes(c)) \/ e.to \in IdsOf(ChainNodes(c))
    IN  SelectSeq(isl.newEdges, Touches)

AbsDiff(a, b) == IF a < b THEN b - a ELSE a - b

\* nodes is a constrained walk inside the zone: each node after the first
\* within 20 of its predecessor in x and in y, and inside the zone
IsConstrainedWalk(nodes, zone) ==
    \A i \in 2..Len(nodes) :
        /\ AbsDiff(nodes[i].pos.x, nodes[i - 1].pos.x) <= N(20)
        /\ AbsDiff(nodes[i].pos.y, nodes[i - 1].pos.y) <= N(20)
        /\ InsideZone(nodes[i].pos, zone)

\* edges are the walkable edges between the consecutive nodes, followed by
\* one bridgeable edge from a node of existing to the first node
IsBridgedChain(nodes, edges, existing) ==
    /\ Len(edges) = Len(nodes)
    /\ \A i \in 1..(Len(nodes) - 1) :
          /\ edges[i].from = nodes[i].id
          /\ edges[i].to = nodes[i + 1].id
          /\ edges[i].type = "walkable"
    /\ edges[Len(edges)].type = "bridgeable"
    /\ edges[Len(edges)].to = nodes[1].id
    /\ edges[Len(edges)].from \in IdsOf(existing)

\* C26: every island chain made by a strategy that returned true has 2 or 3
\* Island nodes, each after the first within 20 of its predecessor in x and
\* in y and inside the strategy's zone; its consecutive nodes are joined by
\* walkable edges, and one bridgeable edge joins its first node to a node
\* that existed before island generation; the chain has no other edge.
IslandChainsWellFormed ==
    \A k \in ChainsMade :
        /\ Len(ChainNodes(isl.called[k])) = isl.called[k].size
        /\ isl.called[k].size \in {2, 3}
        /\ \A i \in 1..Len(ChainNodes(isl.called[k])) :
              ChainNodes(isl.called[k])[i].type = ISLAND
        /\ IsConstrainedWalk(ChainNodes(isl.called[k]), isl.called[k].zone)
        /\ IsBridgedChain(ChainNodes(isl.called[k]), ChainEdgesOf(isl.called[k]),
                          enhanced.nodes)

\* the node of nodes of the given id
NodeOfId(nodes, id) == nodes[CHOOSE i \in 1..Len(nodes) : nodes[i].id = id]

\* no node of candidates is nearer to the point target than the node p
NoneNearer(p, target, candidates) ==
    \A i \in 1..Len(candidates) :
        Hypot2(p.pos, target) <= Hypot2(candidates[i].pos, target)

\* the first node of the chain c, and the node its bridgeable edge comes from
ChainFirst(c) == NodeOfId(isl.newNodes, c.first)
ChainAnchor(c) == NodeOfId(enhanced.nodes, c.from)

\* C27, as stated: for every island chain of every strategy, the bridgeable
\* edge comes from the node nearest to the chain's first node among all the
\* nodes that existed before island generation.
BridgeFromNearestOfAll ==
    \A k \in ChainsMade :
        NoneNearer(ChainAnchor(isl.called[k]), ChainFirst(isl.called[k]).pos,
                   enhanced.nodes)

\* the node the strategy of the chain c takes for the bridgeable edge: of
\* the empty zones strategy the existing node nearest to the middle of the
\* zone's left side; of the fourth column strategy a FrontLine or
\* FrontLineEntry, from which the first node is 15 to 25 to the right and at
\* most 10 up or down; of the center gap strategy the FrontLine nearest to
\* the first node among the FrontLines
IsStrategyAnchor(c) ==
    CASE c.name = "emptyZones" ->
            NoneNearer(ChainAnchor(c), Pt(c.zone.x, c.zone.y + (c.zone.height \div 2)),
                       enhanced.nodes)
      [] c.name = "fourthColumn" ->
            /\ ChainAnchor(c).type \in {FRONT_LINE, FRONT_LINE_ENTRY}
            /\ ChainFirst(c).pos.x - ChainAnchor(c).pos.x \in N(15)..N(25)
            /\ ChainFirst(c).pos.y - ChainAnchor(c).pos.y \in (-N(10))..N(10)
      [] c.name = "centerGap" ->
            /\ ChainAnchor(c).type = FRONT_LINE
            /\ NoneNearer(ChainAnchor(c), ChainFirst(c).pos,
                          findNodes(enhanced.nodes, FRONT_LINE))

\* C27: for every island chain the bridgeable edge comes from the node its
\* strategy takes: the existing node nearest to the middle of the zone's
\* left side (empty zones), the FrontLine or FrontLineEntry the chain was
\* started beside (fourth column), the FrontLine nearest to the chain's
\* first node (center gap).
BridgeFromStrategyAnchor == \A k \in ChainsMade : IsStrategyAnchor(isl.called[k])

\* a layout is returned with a chain of each of the three strategies, one of
\* them bridged from a node that is not the nearest of all to its first node
BridgeFromStrategyAnchorWitness ==
    /\ pc = "done"
    /\ {isl.called[k].name : k \in ChainsMade}
          = {"emptyZones", "fourthColumn", "centerGap"}
    /\ \E k \in ChainsMade :
          ~NoneNearer(ChainAnchor(isl.called[k]), ChainFirst(isl.called[k]).pos,
                      enhanced.nodes)

\* the ids one edge away, in either direction, from an id of seen
Neighbours(edges, seen) ==
    {edges[i].to : i \in {k \in 1..Len(edges) : edges[k].from \in seen}}
    \cup {edges[i].from : i \in {k \in 1..Len(edges) : edges[k].to \in seen}}

\* the ids that undirected paths of edges lead to from the ids of seen
RECURSIVE ReachableFrom(_, _)
ReachableFrom(edges, seen) ==
    IF Neighbours(edges, seen) \subseteq seen THEN seen
    ELSE ReachableFrom(edges, seen \cup Neighbours(edges, seen))

\* every node of nodes but the center hubs is reached from the Spawn
IsConnected(nodes, edges) ==
    \A i \in 1..Len(nodes) :
        nodes[i].type # CENTER_HUB =>
            nodes[i].id \in ReachableFrom(edges, IdsOf(findNodes(nodes, SPAWN)))

\* C28: in every layout returned, each team's graph, its edges read as
\* undirected, is connected: every Wool, WoolEntry, SpawnEntry, FrontLine,
\* FrontLineEntry, Hub, Helper and Island of the team is reachable from the
\* team's Spawn.
TeamGraphsConnected ==
    pc = "done" =>
        \A t \in TeamsOf(layout) : IsConnected(NodesOf(layout, t), EdgesOf(layout, t))

\* a call of pickCuts returned: its segments, and the last of them
LastCutsSegments == segmentsDouble(drawn.v, drawn.total)
LastSegment == LastCutsSegments[drawn.numCuts + 1]

\* the front column createGrid makes of two cuts takes the fallback of
\* placePairedPoints for a zone too narrow, with padding 10, for the least
\* distance the controls offer, the initial one and one out of any zone:
\* the column is at x = 0 + width of column 0 + width of column 1
FrontColumnIsNarrow ==
    \A distanceMin \in {5, 10, 200} :
        narrowZoneDouble(DoubleAdd(LastCutsSegments[1], LastCutsSegments[2]),
                         LastCutsSegments[3], distanceMin, 10)

\* C29, as stated: the last segment of every pickCuts call is exactly
\* minCellSize long, so the front column of a grid is exactly 20 wide (and
\* the bottom row of an asymmetric grid exactly 20 high) and every
\* placePairedPoints call on it takes the fallback for a narrow zone.
LastSegmentExactlyMinimum ==
    (CutsCalled /\ drawn.ok) =>
        /\ LastSegment = DoubleOf(drawn.minCellSize, 0)
        /\ drawn.numCuts = 2 => FrontColumnIsNarrow

\* C29: the last segment of every pickCuts call is minCellSize long up to
\* the rounding of the cuts, less than 2^-43 away from it, and every
\* placePairedPoints call on the front column of a grid takes the fallback
\* for a narrow zone.
LastSegmentNearMinimum ==
    (CutsCalled /\ drawn.ok) =>
        /\ DoubleAbsLess(DoubleSub(LastSegment, DoubleOf(drawn.minCellSize, 0)),
                         DoubleOf(1, -43))
        /\ drawn.numCuts = 2 => FrontColumnIsNarrow

\* pickCuts returned two cuts and the last segment is not minCellSize
LastSegmentNearMinimumWitness ==
    /\ CutsCalled
    /\ drawn.ok
    /\ drawn.numCuts = 2
    /\ LastSegment # DoubleOf(drawn.minCellSize, 0)

\* the configuration c with the options of the 2-team mode off
OptionsOff(c) ==
    [c EXCEPT !.pathingEnhancements = NoPathing, !.islandGeneration = NoIslands,
              !.symmetricalTeamLayout = FALSE, !.gridMode = STANDARD]

\* the edges of nodes flagged isRushRoute
HasRushRoute(edges) == \E i \in 1..Len(edges) : edges[i].isRushRoute

\* C30: a 4-team layout has no Helper node, no Island node and no edge
\* flagged isRushRoute in any team, and two 4-team calls whose
\* configurations differ only in pathingEnhancements, islandGeneration,
\* symmetricalTeamLayout and gridMode come to the same outcome.
FourTeamIgnoresOptions ==
    /\ (pc = "done" /\ config.numTeams = 4) =>
          \A t \in TeamsOf(layout) :
              /\ CountOf(layout, t, HELPER) = 0
              /\ CountOf(layout, t, ISLAND) = 0
              /\ ~HasRushRoute(EdgesOf(layout, t))
    /\ \A m1, m2 \in memo :
          (m1.config.numTeams = 4 /\ OptionsOff(m1.config) = OptionsOff(m2.config))
              => m1.outcome = m2.outcome

\* a 4-team call with every option on returns the layout that an earlier
\* call with the options off returned
FourTeamIgnoresOptionsWitness ==
    /\ pc = "done"
    /\ config.numTeams = 4
    /\ config.symmetricalTeamLayout
    /\ config.gridMode = ROW_INDEPENDENT
    /\ config.pathingEnhancements.enableSpawnWoolRushRoute
    /\ config.islandGeneration.enabled
    /\ \E m \in memo : m.config = OptionsOff(config) /\ m.outcome.layout = layout

=============================================================================
